---- MODULE Spec2Model ----
(***************************************************************************)
(* Model of the adaptive assessment and augmentation pipeline of the       *)
(* ResponsibleAIAgent backend: the priority escalator                      *)
(* (response_adapter.py), the file cache of dynamic resources              *)
(* (dynamic_resources.py) and the submission handler with its generation   *)
(* and augmentation steps (app.py).                                        *)
(*                                                                         *)
(* The specifications share the variables; each leaves the variables of    *)
(* the other parts at their initial value.                                 *)
(*   SpecPrio   PriorityMapper.get_priority on drawn inputs                *)
(*   SpecCache  DynamicResourceFetcher, one invocation at a time           *)
(*   SpecConc   DynamicResourceFetcher, invocations interleaved            *)
(*   SpecReq    submit_review: generation, fallback and augmentation       *)
(***************************************************************************)
EXTENDS Integers, Sequences, FiniteSets, TLC

VARIABLES
    pr,            \* PriorityMapper.get_priority: the inputs drawn and its result
    now,           \* datetime.now(), in whole hours
    cache,         \* the files of CACHE_DIR, by file stem
    openai_client, \* DynamicResourceFetcher.openai_client is set
    inv,           \* the invocations of the fetcher: position, locals, result
    req,           \* app.py: the module globals and the request being handled
    call           \* a call of a helper, or the start-up of app.py: inputs and result

vars == <<pr, now, cache, openai_client, inv, req, call>>

(***************************************************************************)
(* Helpers for Python dicts and strings.                                   *)
(***************************************************************************)

\* dict.get(k, default)
DictGet(d, k, default) == IF k \in DOMAIN d THEN d[k] ELSE default

\* str.lower() on the deployment stages a caller may send
StageLowerTable ==
    [ s \in {"Development", "Planning", "Production", "production", "PRODUCTION"} |->
        CASE s = "Development" -> "development"
          [] s = "Planning"    -> "planning"
          [] OTHER             -> "production" ]

StageLower(s) == StageLowerTable[s]

DeploymentStages == DOMAIN StageLowerTable

(***************************************************************************)
(* response_adapter.py: Priority and PriorityMapper                        *)
(***************************************************************************)

Priority == {"CRITICAL_BLOCKER", "HIGHLY_RECOMMENDED", "RECOMMENDED", "NICE_TO_HAVE"}

\* Position in the severity order: NICE_TO_HAVE lowest, CRITICAL_BLOCKER highest.
Severity(p) ==
    CASE p = "CRITICAL_BLOCKER"   -> 3
      [] p = "HIGHLY_RECOMMENDED" -> 2
      [] p = "RECOMMENDED"        -> 1
      [] p = "NICE_TO_HAVE"       -> 0

RISK_PRIORITY_MAP ==
    [ r \in { "prompt_injection_jailbreak", "harmful_content_generation",
              "pii_data_exposure", "unauthorized_actions",
              "hallucination_grounding", "bias_discrimination",
              "model_reliability", "excessive_agency",
              "lack_of_explainability", "insufficient_monitoring",
              "accessibility_gaps",
              "cost_optimization", "performance_tuning" } |->
        CASE r \in { "prompt_injection_jailbreak", "harmful_content_generation",
                     "pii_data_exposure", "unauthorized_actions" }
                -> "CRITICAL_BLOCKER"
          [] r \in { "hallucination_grounding", "bias_discrimination",
                     "model_reliability", "excessive_agency" }
                -> "HIGHLY_RECOMMENDED"
          [] r \in { "lack_of_explainability", "insufficient_monitoring",
                     "accessibility_gaps" }
                -> "RECOMMENDED"
          [] OTHER -> "NICE_TO_HAVE" ]

\* ESCALATION_RULES["is_high_risk"]
EscalationHighRisk ==
    [ p \in {"RECOMMENDED", "NICE_TO_HAVE"} |->
        IF p = "RECOMMENDED" THEN "HIGHLY_RECOMMENDED" ELSE "RECOMMENDED" ]

\* ESCALATION_RULES["production_stage"]
EscalationProduction ==
    [ p \in {"HIGHLY_RECOMMENDED", "RECOMMENDED"} |->
        IF p = "HIGHLY_RECOMMENDED" THEN "CRITICAL_BLOCKER" ELSE "HIGHLY_RECOMMENDED" ]

\* ESCALATION_RULES["handles_pii"]: keyed by risk type, not by priority
EscalationPii ==
    [ r \in {"pii_data_exposure", "lack_of_explainability"} |->
        IF r = "pii_data_exposure" THEN "CRITICAL_BLOCKER" ELSE "HIGHLY_RECOMMENDED" ]

\* The risk types a caller may pass: the mapped ones and one the map does not hold.
RiskTypes == DOMAIN RISK_PRIORITY_MAP \cup {"unlisted_risk"}

Characteristics == [is_high_risk : BOOLEAN, handles_pii : BOOLEAN]

\* base_priority = RISK_PRIORITY_MAP.get(risk_type, Priority.RECOMMENDED)
BasePriority(risk_type) == DictGet(RISK_PRIORITY_MAP, risk_type, "RECOMMENDED")

\* if project_characteristics.get("is_high_risk"): ...
ApplyHighRisk(p, chars) ==
    IF chars.is_high_risk THEN DictGet(EscalationHighRisk, p, p) ELSE p

\* if deployment_stage.lower() == "production": ...
ApplyProduction(p, stage) ==
    IF StageLower(stage) = "production" THEN DictGet(EscalationProduction, p, p) ELSE p

\* if project_characteristics.get("handles_pii"): if risk_type in pii_rules: ...
ApplyPii(p, risk_type, chars) ==
    IF chars.handles_pii /\ risk_type \in DOMAIN EscalationPii
    THEN EscalationPii[risk_type]
    ELSE p

\* The priority after each statement of get_priority: base, then the three rules.
PrioritySteps(risk_type, chars, stage) ==
    LET p0 == BasePriority(risk_type)
        p1 == ApplyHighRisk(p0, chars)
        p2 == ApplyProduction(p1, stage)
        p3 == ApplyPii(p2, risk_type, chars)
    IN  <<p0, p1, p2, p3>>

get_priority(risk_type, chars, stage) == PrioritySteps(risk_type, chars, stage)[4]

PrIdle == [phase |-> "none"]

\* The inputs of one comparison: two risk types under one context.
InitPr ==
    pr \in [ phase : {"input"}, risk_a : RiskTypes, risk_b : RiskTypes,
             chars : Characteristics, stage : DeploymentStages ]

\* get_priority applied to both risk types under the drawn context.
GetPriority ==
    /\ pr.phase = "input"
    /\ pr' = [ phase    |-> "done",
               risk_a   |-> pr.risk_a,
               risk_b   |-> pr.risk_b,
               chars    |-> pr.chars,
               stage    |-> pr.stage,
               steps_a  |-> PrioritySteps(pr.risk_a, pr.chars, pr.stage),
               result_b |-> get_priority(pr.risk_b, pr.chars, pr.stage) ]
    /\ UNCHANGED <<now, cache, openai_client, inv, req, call>>

----------------------------------------------------------------------------
(***************************************************************************)
(* dynamic_resources.py: DynamicResourceFetcher and its file cache         *)
(***************************************************************************)

\* Model bounds
MaxTime == 8
NumPayloads == 2
NumProcs == 2

\* CACHE_TTL_HOURS
TTL_github_repos == 6
TTL_web_search == 4

Procs == 1..NumProcs
Payloads == 1..NumPayloads

\* The cache keys the modelled calls build: f"github_{owner}_{repo}" and
\* f"bing_search_{query}_{context}".
GithubKey == "github_microsoft_autogen"
BingKey == "bing_search_AI Microsoft responsible AI updates 2025_Microsoft responsible AI tools, governance, and safety"

\* The keys of get_reference_architectures("computer_vision", ""):
\* f"ref_arch_{project_type}_{use_case}", and the key of the one repository
\* of that mapping, ("microsoft", "responsible-ai-toolbox").
RefArchKey == "ref_arch_computer_vision_"
ToolboxKey == "github_microsoft_responsible-ai-toolbox"

\* hashlib.md5(cache_key.encode()).hexdigest() of those keys
MD5Hex ==
    [ k \in {GithubKey, BingKey, RefArchKey, ToolboxKey} |->
        CASE k = GithubKey  -> "b30987d8238c66993226a48cc4c41af2"
          [] k = BingKey    -> "bfc3ec2232781cf97578b9ba1ef8151c"
          [] k = RefArchKey -> "e8be7c77abc597fb18b5daa9461a040f"
          [] OTHER          -> "037559950e68512b9bfdf238e1b0fecc" ]

\* _get_cache_path: the stem of CACHE_DIR / f"{safe_key}.json"
CachePath(cache_key) == MD5Hex[cache_key]

Stems == { CachePath(k) : k \in DOMAIN MD5Hex }

\* A file of CACHE_DIR. "truncated": opened with mode 'w', nothing dumped yet.
\* "partial": a dump that stopped midway. "garbled": the bytes of two writers
\* that held the file open at once. None of the three parses as JSON.
Absent == [kind |-> "absent"]
Truncated == [kind |-> "truncated"]
Partial == [kind |-> "partial"]
Garbled == [kind |-> "garbled"]
Entry(ts, data) == [kind |-> "entry", timestamp |-> ts, data |-> data]

\* json.load of the file succeeds
Parses(file) == file.kind = "entry"

NoData == [payload |-> 0, source |-> "none"]

\* The dict a successful fetch builds, "_source" included.
ApiResult(v, src) == [payload |-> v, source |-> src]

\* The return value None, and a returned dict.
RetNone == [kind |-> "none", data |-> NoData]
RetValue(data) == [kind |-> "value", data |-> data]
RetRaised == [kind |-> "exception", data |-> NoData]

\* The comparison with the boundary included: an entry of age ttl_hours
\* would still count as valid.
WithinTTLInclusive(t, cached_time, ttl_hours) == t - cached_time <= ttl_hours

\* datetime.now() - cached_time < timedelta(hours=ttl_hours)
WithinTTL(t, cached_time, ttl_hours) == t - cached_time < ttl_hours

\* _is_cache_valid: exists(), json.load, the timestamp against the TTL; any
\* exception of the read gives False.
IsCacheValid(file, t, ttl_hours) ==
    /\ file.kind # "absent"
    /\ Parses(file)
    /\ WithinTTL(t, file.timestamp, ttl_hours)

\* A read that never finds the data of an entry.
ReadCacheNothing(file) == NoData

\* _read_cache: data.get("data"), None when the read raises. The dict returned
\* is a fresh copy: setting "_source" on it leaves the file alone.
ReadCache(file) == IF Parses(file) THEN file.data ELSE NoData

\* `if cached_data:` a dict with keys is truthy, None is not
Truthy(data) == data # NoData

\* The copy handed back with the "_source" it was persisted with.
MarkSourceKept(data, src) == data

\* cached_data["_source"] = src on the copy read from the file
MarkSource(data, src) == [data EXCEPT !.source = src]

\* The operations: "github" is fetch_github_repo_info("microsoft", "autogen"),
\* "toolbox" is fetch_github_repo_info("microsoft", "responsible-ai-toolbox"),
\* "bing" is search_with_bing_grounding.
CacheTTL(op) == IF op = "bing" THEN TTL_web_search ELSE TTL_github_repos
CacheKey(op) == IF op = "github" THEN GithubKey ELSE IF op = "toolbox" THEN ToolboxKey ELSE BingKey
ApiSource(op) == IF op = "bing" THEN "bing_grounding" ELSE "github_api"

\* What urlopen and the parsing of its body may do: a 2xx answer that parses,
\* an HTTPError, a timeout or URLError, a body that makes the parsing raise.
FetchOutcomes == {"ok", "http_error", "timeout", "bad_body"}

\* A handler for urllib.error.HTTPError alone.
CaughtHTTPErrorOnly(outcome) == outcome = "http_error"

\* The except clauses after the fetch: HTTPError, then Exception.
Caught(outcome) == outcome \in {"http_error", "timeout", "bad_body"}

\* The file after json.dump has written through a handle opened with 'w'.
\* If another writer dumped after this handle truncated the file, both wrote
\* from offset 0 and the bytes left are this writer's or a mix of the two.
AfterDump(file, entry) ==
    CASE file.kind = "absent"    -> {Absent}
      [] file.kind = "truncated" -> {entry}
      [] OTHER                   -> {entry, Garbled}

IdleInv ==
    [ pc |-> "idle", op |-> "none", result |-> NoData, ret |-> RetNone,
      before |-> Absent, fetch |-> "no", wrote |-> "no", saw |-> "nothing",
      refresh |-> FALSE ]

CacheIdle ==
    /\ now = 0
    /\ cache = [s \in Stems |-> Absent]
    /\ openai_client = FALSE
    /\ inv = [p \in Procs |-> IdleInv]

InitFetcher ==
    /\ now = 0
    /\ cache = [s \in Stems |-> Absent]
    /\ openai_client \in BOOLEAN
    /\ inv = [p \in Procs |-> IdleInv]

File(p) == cache[CachePath(CacheKey(inv[p].op))]

SetInv(p, r) == inv' = [inv EXCEPT ![p] = r]

\* fetch_github_repo_info(owner, repo) or search_with_bing_grounding(query) is
\* called: cache_key and cache_path are computed.
Call(p, op) ==
    /\ inv[p].pc = "idle"
    /\ SetInv(p, [IdleInv EXCEPT !.pc = "valid", !.op = op,
                                 !.before = cache[CachePath(CacheKey(op))]])
    /\ UNCHANGED <<pr, now, cache, openai_client, req, call>>

\* if self._is_cache_valid(cache_path, CACHE_TTL_HOURS[...]):
CheckValid(p) ==
    /\ inv[p].pc = "valid"
    /\ LET valid == IsCacheValid(File(p), now, CacheTTL(inv[p].op))
       IN  SetInv(p, [inv[p] EXCEPT
                 !.pc = IF valid THEN "read_fresh"
                        ELSE IF inv[p].op = "bing" THEN "client" ELSE "fetch",
                 !.saw = File(p).kind])
    /\ UNCHANGED <<pr, now, cache, openai_client, req, call>>

\* cached_data = self._read_cache(cache_path); if cached_data: return it
\* marked "cache"; otherwise fall through to the fetch.
ReadFresh(p) ==
    /\ inv[p].pc = "read_fresh"
    /\ LET cached_data == ReadCache(File(p))
       IN  SetInv(p, [inv[p] EXCEPT
                 !.pc = IF Truthy(cached_data) THEN "done"
                        ELSE IF inv[p].op = "bing" THEN "client" ELSE "fetch",
                 !.ret = IF Truthy(cached_data)
                         THEN RetValue(MarkSource(cached_data, "cache"))
                         ELSE RetNone,
                 !.saw = File(p).kind])
    /\ UNCHANGED <<pr, now, cache, openai_client, req, call>>

\* search_with_bing_grounding: if not self.openai_client: return None
CheckClient(p) ==
    /\ inv[p].pc = "client"
    /\ SetInv(p, [inv[p] EXCEPT
             !.pc = IF openai_client THEN "fetch" ELSE "done",
             !.ret = RetNone])
    /\ UNCHANGED <<pr, now, cache, openai_client, req, call>>

\* The network call and the building of result. fetch_github_repo_info goes on
\* to the stale read when it fails; search_with_bing_grounding returns None.
Fetch(p, outcome, v) ==
    /\ inv[p].pc = "fetch"
    /\ SetInv(p, [inv[p] EXCEPT
             !.pc = CASE outcome = "ok" -> "write_open"
                      [] ~Caught(outcome) -> "done"
                      [] inv[p].op # "bing" -> "read_stale"
                      [] OTHER -> "done",
             !.fetch = IF outcome = "ok" THEN "ok" ELSE "failed",
             !.result = IF outcome = "ok" THEN ApiResult(v, ApiSource(inv[p].op))
                        ELSE NoData,
             !.ret = IF outcome # "ok" /\ ~Caught(outcome) THEN RetRaised ELSE RetNone])
    /\ UNCHANGED <<pr, now, cache, openai_client, req, call>>

\* _write_cache: open(cache_path, 'w') truncates the file, or raises and the
\* exception is logged and dropped.
WriteOpen(p, opened) ==
    /\ inv[p].pc = "write_open"
    /\ IF opened
       THEN /\ cache' = [cache EXCEPT ![CachePath(CacheKey(inv[p].op))] = Truncated]
            /\ SetInv(p, [inv[p] EXCEPT !.pc = "write_dump"])
       ELSE /\ cache' = cache
            /\ SetInv(p, [inv[p] EXCEPT !.pc = "done", !.wrote = "failed",
                                        !.ret = RetValue(inv[p].result)])
    /\ UNCHANGED <<pr, now, openai_client, req, call>>

\* _write_cache: json.dump({"timestamp": now, "data": data}, f) and the close,
\* or a dump that raises midway; then `return result`.
WriteDump(p, dumped) ==
    /\ inv[p].pc = "write_dump"
    /\ IF dumped
       THEN \E file \in AfterDump(File(p), Entry(now, inv[p].result)) :
               cache' = [cache EXCEPT ![CachePath(CacheKey(inv[p].op))] = file]
       ELSE cache' = [cache EXCEPT ![CachePath(CacheKey(inv[p].op))] =
                          IF File(p).kind = "absent" THEN Absent ELSE Partial]
    /\ SetInv(p, [inv[p] EXCEPT !.pc = "done",
                                !.wrote = IF dumped THEN "ok" ELSE "failed",
                                !.ret = RetValue(inv[p].result)])
    /\ UNCHANGED <<pr, now, openai_client, req, call>>

\* fetch_github_repo_info after a failed fetch: the cached data even if
\* expired, marked "stale_cache", else None.
ReadStale(p) ==
    /\ inv[p].pc = "read_stale"
    /\ LET cached_data == ReadCache(File(p))
       IN  SetInv(p, [inv[p] EXCEPT
                 !.pc = "done",
                 !.ret = IF Truthy(cached_data)
                         THEN RetValue(MarkSource(cached_data, "stale_cache"))
                         ELSE RetNone,
                 !.saw = File(p).kind])
    /\ UNCHANGED <<pr, now, cache, openai_client, req, call>>

\* The caller has the return value; the invocation is over.
Return(p) ==
    /\ inv[p].pc = "done"
    /\ SetInv(p, IdleInv)
    /\ UNCHANGED <<pr, now, cache, openai_client, req, call>>

\* No invocation is under way.
AllIdle == \A q \in Procs : inv[q].pc = "idle"

\* No other invocation is under way.
Alone(p) == \A q \in Procs \ {p} : inv[q].pc = "idle"

\* Time passes. An invocation takes seconds, so the clock of whole hours moves
\* between invocations.
Tick ==
    /\ AllIdle
    /\ now < MaxTime
    /\ now' = now + 1
    /\ UNCHANGED <<pr, cache, openai_client, inv, req, call>>

\* A call made while no other invocation is under way.
SeqCall(p, op) == Alone(p) /\ Call(p, op)

\* The names the endpoints pass to clear_cache
CacheTypes == {"reference_architectures", "github_repos"}

\* `cache_type in cache_file.stem`: the pairs <<cache_type, stem>> in use for
\* which the name occurs in the stem. A stem is the 32 hexadecimal digits of
\* an md5 digest and both names hold other characters: there is no such pair.
TypeInStem == {}

\* clear_cache(cache_type): the files left; "all" stands for None
clear_cache(files, cache_type) ==
    [ stem \in DOMAIN files |->
        IF files[stem].kind = "absent" THEN files[stem]
        ELSE IF cache_type = "all" THEN Absent
        ELSE IF <<cache_type, stem>> \in TypeInStem THEN Absent
        ELSE files[stem] ]

\* get_github_repos with refresh=true: clear_cache("github_repos"), then
\* get_popular_azure_samples calls fetch_github_repo_info.
RefreshCall(p) ==
    /\ Alone(p)
    /\ inv[p].pc = "idle"
    /\ cache' = clear_cache(cache, "github_repos")
    /\ SetInv(p, [IdleInv EXCEPT !.pc = "valid", !.op = "github", !.refresh = TRUE,
                                 !.before = cache[CachePath(CacheKey("github"))]])
    /\ UNCHANGED <<pr, now, openai_client, req, call>>

\* The steps of an invocation after its call.
Body(p) ==
    \/ CheckValid(p)
    \/ ReadFresh(p)
    \/ CheckClient(p)
    \/ \E outcome \in FetchOutcomes, v \in Payloads : Fetch(p, outcome, v)
    \/ \E opened \in BOOLEAN : WriteOpen(p, opened)
    \/ \E dumped \in BOOLEAN : WriteDump(p, dumped)
    \/ ReadStale(p)
    \/ Return(p)

\* One invocation at a time, each running to its return.
NextCache ==
    \/ Tick
    \/ \E p \in Procs : (\E op \in {"github", "bing"} : SeqCall(p, op)) \/ Body(p)

\* One request at a time, some of them with refresh=true.
NextRefresh ==
    \/ NextCache
    \/ \E p \in Procs : RefreshCall(p)

\* Invocations of fetch_github_repo_info by concurrent requests, interleaved
\* at their file operations.
NextConc ==
    \/ Tick
    \/ \E p \in Procs :
          \/ Call(p, "github")
          \/ CheckValid(p)
          \/ ReadFresh(p)
          \/ \E outcome \in FetchOutcomes, v \in Payloads : Fetch(p, outcome, v)
          \/ \E opened \in BOOLEAN : WriteOpen(p, opened)
          \/ \E dumped \in BOOLEAN : WriteDump(p, dumped)
          \/ ReadStale(p)
          \/ Return(p)

----------------------------------------------------------------------------
(***************************************************************************)
(* app.py: documents                                                       *)
(*                                                                         *)
(* A dict is a function on its keys.  A string, a number or a list is a    *)
(* sequence: a scalar is the sequence of its one part.  None, "", [] and   *)
(* {} are all the empty function, which is what `not v` tests.             *)
(***************************************************************************)

\* not v
Falsy(v) == v = <<>>

\* d.get(k), with None read as the empty value
Get(d, k) == DictGet(d, k, <<>>)

\* d[k] = v
Put(d, k, v) == [x \in (DOMAIN d) \cup {k} |-> IF x = k THEN v ELSE d[x]]

\* d.setdefault(k, v)
SetDefault(d, k, v) == IF k \in DOMAIN d THEN d ELSE Put(d, k, v)

\* {**a, **b}
Merge(a, b) == [x \in (DOMAIN a) \cup (DOMAIN b) |-> IF x \in DOMAIN b THEN b[x] ELSE a[x]]

\* items[:n]
Take(items, n) == SubSeq(items, 1, IF Len(items) < n THEN Len(items) ELSE n)

Min(a, b) == IF a < b THEN a ELSE b

Max(a, b) == IF a > b THEN a ELSE b

\* The members of a list
Range(s) == { s[i] : i \in DOMAIN s }

\* A string is the sequence of its words, with one space between two words.
\* str.lower() on the words in use; the other words are in lower case.
LowerTable ==
    "Loan" :> "loan" @@ "Customer" :> "customer" @@ "LLM" :> "llm" @@
    "Traditional" :> "traditional" @@ "ML" :> "ml" @@ "AI" :> "ai" @@
    "Agent" :> "agent" @@ "Healthcare" :> "healthcare" @@
    "Financial" :> "financial" @@ "Services" :> "services" @@
    "Retail" :> "retail" @@ "Fairlearn" :> "fairlearn" @@
    "Presidio" :> "presidio" @@ "N/A" :> "n/a" @@ "None" :> "none" @@
    "Not Specified" :> "not specified" @@ "GPT-4" :> "gpt-4" @@
    "LLM/Generative" :> "llm/generative"

LowerWord(w) == IF w \in DOMAIN LowerTable THEN LowerTable[w] ELSE w

\* The lower-case words of fewer than three characters
ShortWords == {"ai", "ml"}

\* `a in b` on two lower-case words: the pairs in use where a is a proper
\* part of b, and those where b also begins with a; no first word of a
\* phrase that is searched for ends another word.
ProperSubstrings ==
    { <<"action", "extraction">>, <<"agent", "agents">>, <<"ai", "fairlearn">>,
      <<"ai", "retail">>, <<"chat", "chatbot">>, <<"extract", "extraction">>,
      <<"gpt", "gpt-4">>, <<"health", "healthcare">>, <<"service", "services">> }

ProperPrefixes ==
    { <<"agent", "agents">>, <<"chat", "chatbot">>, <<"extract", "extraction">>,
      <<"gpt", "gpt-4">>, <<"health", "healthcare">>, <<"service", "services">> }

WordIn(a, b) == a = b \/ <<a, b>> \in ProperSubstrings

StartsWith(b, a) == a = b \/ <<a, b>> \in ProperPrefixes

EndsWith(b, a) == a = b

\* `a in b` on two lower-case strings
TextIn(a, b) ==
    IF a = <<>> THEN TRUE
    ELSE IF Len(a) = 1 THEN \E i \in DOMAIN b : WordIn(a[1], b[i])
    ELSE \E i \in 1..(Len(b) - Len(a) + 1) :
            /\ EndsWith(b[i], a[1])
            /\ \A k \in 2..(Len(a) - 1) : b[i + k - 1] = a[k]
            /\ StartsWith(b[i + Len(a) - 1], a[Len(a)])

RECURSIVE DedupeFrom(_, _, _)
DedupeFrom(items, i, ordered) ==
    IF i > Len(items) THEN ordered
    ELSE IF items[i] = "" \/ (\E j \in 1..Len(ordered) : ordered[j] = items[i])
         THEN DedupeFrom(items, i + 1, ordered)
         ELSE DedupeFrom(items, i + 1, Append(ordered, items[i]))

_dedupe_preserve_order(items) == DedupeFrom(items, 1, <<>>)

(***************************************************************************)
(* app.py: the submitted project and the deterministic fallbacks           *)
(***************************************************************************)

ProjectNames == {"", "Loan Bot"}

ProjectStages == {"Development", "Production"}

Descriptions == {"loan approval assistant", "patient triage chatbot"}

CapabilityLists == {<<>>, <<"personal_data">>}

\* The words of the keyword lists of app.py that occur in a description
\* (`word in description`).
WordsIn(description) ==
    CASE description = "loan approval assistant" -> {"loan", "assistant"}
      [] description = "patient triage chatbot"  -> {"patient", "chatbot"}
      [] description = "patient diagnosis history" -> {"patient"}
      [] description = "student health records"  -> {"health", "student"}
      [] description = "payment with face scan"  -> {"payment", "face"}
      [] description = "bank payment with facial biometric check for a minor patient" ->
            {"bank", "payment", "facial", "biometric", "minor", "patient"}
      [] OTHER                                   -> {}

\* The JSON bodies a caller posts.
ProjectData ==
    [ project_name : ProjectNames, deployment_stage : ProjectStages,
      project_description : Descriptions, ai_capabilities : CapabilityLists ]

\* any(word in description for word in words)
AnyWord(description, words) == WordsIn(description) \cap words # {}

HighRiskCaps == {"personal_data", "decisions", "facial_recognition", "health_data", "financial"}

\* The bumps of calculate_basic_risk_scores, in the order they are applied.
RiskBumps(project_data) ==
    LET stage       == StageLower(project_data.deployment_stage)
        description == project_data.project_description
        capabilities == project_data.ai_capabilities
        Bump(cond, amount, reason) == IF cond THEN << [amount |-> amount, reason |-> reason] >> ELSE <<>>
    IN  Bump(stage \in {"production", "ga", "live"}, 10, "Production deployment increases risk")
        \o Bump(AnyWord(description, {"health", "medical", "patient"}), 12, "Health-related use case")
        \o Bump(AnyWord(description, {"financial", "bank", "payment", "loan"}), 10, "Financial decisioning or data")
        \o Bump(AnyWord(description, {"children", "minor", "student"}), 8, "Impacts children or minors")
        \o Bump(AnyWord(description, {"biometric", "facial", "face", "voiceprint"}), 10, "Biometric data involved")
        \o Bump(\E i \in 1..Len(capabilities) : capabilities[i] \in HighRiskCaps, 12, "High-risk AI capability selected")

RECURSIVE SumAmounts(_)
SumAmounts(bumps) == IF bumps = <<>> THEN 0 ELSE bumps[1].amount + SumAmounts(Tail(bumps))

BaseScore == 55

ScoreCap == 95

\* The score as the bumps leave it.
Unbounded(overall) == overall

\* max(0, min(95, overall))
Bounded(overall) == Max(0, Min(ScoreCap, overall))

calculate_basic_risk_scores(project_data) ==
    LET bumps       == RiskBumps(project_data)
        drivers_neg == [i \in 1..Len(bumps) |-> bumps[i].reason]
        overall     == Bounded(BaseScore + SumAmounts(bumps))
        level       == IF overall >= 85 THEN "High" ELSE IF overall >= 70 THEN "Medium" ELSE "Low"
        principle_base == Max(50, Min(90, overall))
    IN  [ overall_score |-> <<overall>>,
          risk_level    |-> <<level>>,
          risk_summary  |-> <<"Preliminary risk estimate based on limited input; provide more details for a refined score.">>,
          principle_scores |->
            [ reliability_safety |-> <<principle_base>>,
              privacy_security   |-> <<Min(95, IF drivers_neg # <<>> THEN principle_base + 5 ELSE principle_base)>>,
              fairness           |-> <<principle_base>>,
              transparency       |-> <<principle_base - 2>>,
              inclusiveness      |-> <<principle_base - 3>>,
              accountability     |-> <<principle_base - 1>> ],
          critical_factors |->
            [ score_drivers_positive |-> <<>>,
              score_drivers_negative |-> drivers_neg ],
          qualitative_assessment |->
            [ governance   |-> <<"Add ownership, escalation, and change control to improve accountability.">>,
              safety       |-> <<"Validate safety filters, abuse monitoring, and rate limits.">>,
              privacy      |-> <<"Confirm data minimization, retention limits, and PII handling.">>,
              fairness     |-> <<"Check for biased training data and add evaluation slices.">>,
              transparency |-> <<"Document intended use, limitations, and user messaging.">> ] ]

\* One entry of the list generate_recommendations_static returns.
StaticRec(principle, priority) == [principle |-> <<principle>>, priority |-> <<priority>>]

generate_recommendations_static(project_data) ==
    LET is_llm_project ==
            AnyWord(project_data.project_description,
                    {"llm", "gpt", "chatbot", "generative", "language model", "openai", "copilot", "assistant"})
        fairness == << StaticRec("Fairness", "High") >>
        llm      == IF is_llm_project THEN << StaticRec("LLM/Generative AI Specific", "Critical") >> ELSE <<>>
        others   == << StaticRec("Reliability & Safety", "Critical"),
                       StaticRec("Privacy & Security", "High"),
                       StaticRec("Inclusiveness", "Medium"),
                       StaticRec("Transparency", "High"),
                       StaticRec("Accountability", "Medium") >>
        production == IF project_data.deployment_stage = "Production"
                      THEN << StaticRec("Production Readiness", "Critical") >> ELSE <<>>
        planning   == IF project_data.deployment_stage = "Planning"
                      THEN << StaticRec("Planning Phase", "High") >> ELSE <<>>
    IN  planning \o fairness \o llm \o others \o production

\* key_map.get(principle.lower()) or "_".join(...) of build_static_pillar_recommendations
PillarKey(principle) ==
    CASE principle = "Fairness"                   -> "fairness"
      [] principle = "Reliability & Safety"       -> "reliability_safety"
      [] principle = "Privacy & Security"         -> "privacy_security"
      [] principle = "Transparency"               -> "transparency"
      [] principle = "Inclusiveness"              -> "inclusiveness"
      [] principle = "Accountability"             -> "accountability"
      [] principle = "LLM/Generative AI Specific" -> "reliability_safety"
      [] principle = "Production Readiness"       -> "production_readiness"
      [] principle = "Planning Phase"             -> "planning_phase"

\* The pillars keep the name of the first recommendation that opened them.
build_static_pillar_recommendations(recommendations) ==
    LET keys == { PillarKey(recommendations[i].principle[1]) : i \in 1..Len(recommendations) }
        First(k) == CHOOSE i \in 1..Len(recommendations) :
                        /\ PillarKey(recommendations[i].principle[1]) = k
                        /\ \A j \in 1..(i - 1) : PillarKey(recommendations[j].principle[1]) # k
    IN  [ k \in keys |->
            [ pillar_name     |-> recommendations[First(k)].principle,
              risk_if_ignored |-> <<"Higher risk posture if these controls are not implemented.">> ] ]

\* len(...) and the two sums of the summary of the static document
CountPriority(recommendations, priority) ==
    Cardinality({ i \in 1..Len(recommendations) : recommendations[i].priority = <<priority>> })

(***************************************************************************)
(* app.py: what the generation call, the knowledge catalog and the         *)
(* dynamic resources can hand to the request                               *)
(***************************************************************************)

\* {k: v} when v is given, {} otherwise
Opt(k, v) == IF v = <<>> THEN <<>> ELSE [x \in {k} |-> v]

RiskPartial == [overall_score |-> <<70>>]

RiskFull ==
    [ overall_score |-> <<70>>,
      risk_level    |-> <<"Medium">>,
      risk_summary  |-> <<"Automated credit decisions for retail customers.">>,
      principle_scores |-> [fairness |-> <<62>>],
      critical_factors |-> [score_drivers_negative |-> <<"Automated credit decisions">>],
      qualitative_assessment |-> [governance |-> <<"A named owner signs off each release.">>],
      score_explanation |-> <<"Driven by credit decisioning.">> ]

GeneratedRepo == [name |-> <<"generated-repo">>, url |-> <<"https://github.com/example/generated-repo">>]

RefNoRepos == [description |-> <<"Generated architecture">>]

RefFull == [description |-> <<"Generated architecture">>, repos |-> <<GeneratedRepo>>]

QuickFull ==
    [ quick_start_guide |->
        [ risk_profile    |-> <<"Generated risk profile">>,
          essential_tools |-> << [name |-> <<"Presidio">>] >> ],
      quick_start |->
        [ essential_tools    |-> << [name |-> <<"Presidio">>] >>,
          first_week_actions |-> <<"Run a bias assessment">>,
          starter_repo       |-> <<"https://github.com/example/generated-repo">>,
          risk_profile       |-> <<"Generated risk profile">> ] ]

\* A tool named by a recommendation is a string or a dict.
ToolStr(name) == [type |-> <<"str">>, name |-> <<name>>]

ToolDict(fields) == Merge([type |-> <<"dict">>], fields)

RecsLegacy == [recommendations |-> << StaticRec("Fairness", "High") >>]

PillarsSparse ==
    [ recommendations_by_pillar |->
        [ fairness |->
            [ pillar_description |-> <<"Treat applicants alike">>,
              recommendations |->
                << [title |-> <<"Assess bias">>, tool |-> ToolStr("Fairlearn")] >> ] ] ]

PillarsFull ==
    [ recommendations_by_pillar |->
        [ fairness |->
            [ why_it_matters  |-> <<"Credit decisions are regulated">>,
              risk_if_ignored |-> <<"Disparate impact findings">>,
              recommendations |->
                << [ title |-> <<"Assess bias">>,
                     why_needed |-> <<"Shows disparity per segment">>,
                     what_happens_without |-> <<"Undetected bias">>,
                     tool |-> ToolDict([ name |-> <<"Fairlearn">>,
                                         purpose |-> <<"Generated purpose">>,
                                         how_it_helps |-> <<"Generated help">>,
                                         url |-> <<"https://fairlearn.org">> ]),
                     implementation_steps |-> <<"Pick metrics">> ] >> ] ] ]

\* The sections a generated document carries beside risk_scores and the
\* recommendations: none, a reference architecture without repositories, or
\* all of them.
RestNone == <<>>

RestRefOnly == [reference_architecture |-> RefNoRepos]

RestFull ==
    Merge(Merge([reference_architecture |-> RefFull], QuickFull),
          [next_steps |-> <<"Schedule a review">>])

\* The JSON objects the generation service answers with.
GenDocs ==
    { Merge(Merge(Opt("risk_scores", risk), recs), rest) :
        risk \in {<<>>, RiskPartial, RiskFull},
        recs \in {<<>>, RecsLegacy, PillarsSparse, PillarsFull},
        rest \in {RestNone, RestRefOnly, RestFull} }

\* Outcomes of client.chat.completions.create followed by json.loads.
GenOutcomes == {"raise", "timeout", "unparseable", "list", "scalar", "object"}

\* The document parsed, when the outcome is a JSON object.
DocsFor(outcome) == IF outcome = "object" THEN GenDocs ELSE {<<>>}

\* The scenarios of the knowledge catalog that can be selected; <<>> is None.
ScenarioFull ==
    [ id    |-> <<"loan-approval-model">>,
      title |-> <<"Loan approval model">>,
      risk_profile |-> <<"High risk: regulated credit decisions">>,
      required_tools |->
        << [ tool |-> <<"Fairlearn">>,
             purpose |-> <<"Measure disparity">>,
             configuration |-> <<"Run per segment">> ] >>,
      implementation_steps |->
        << "1. Define fairness metrics: agree thresholds with risk", "2. Run bias assessment" >>,
      success_metrics |-> <<"Approval parity">>,
      common_pitfalls |-> <<"Proxy features">> ]

ScenarioBare == [id |-> <<"rag-enterprise-search">>, title |-> <<"Enterprise search">>]

Scenarios == {<<>>, ScenarioBare, ScenarioFull}

FetchedRepo ==
    [ name |-> <<"autogen">>, url |-> <<"https://github.com/microsoft/autogen">>,
      description |-> <<"Agent framework">>, stars |-> <<30000>>,
      language |-> <<"Python">>, last_updated |-> <<"2025-01-01">> ]

ArchsNoRepos ==
    [ patterns |-> <<"RAG pattern">>, github_repos |-> <<>>,
      documentation |-> <<"AI Architecture Design">>, quick_start_commands |-> <<>> ]

ArchsWithRepo ==
    [ patterns |-> <<"RAG pattern">>, github_repos |-> <<FetchedRepo>>,
      documentation |-> <<"AI Architecture Design">>,
      quick_start_commands |-> <<"git clone https://github.com/microsoft/autogen">> ]

ToolInfo ==
    [ primary_purpose |-> <<"Fairness assessment">>,
      documentation_url |-> <<"https://fairlearn.org/docs">>,
      install_command |-> <<"pip install fairlearn">> ]

\* What the lookups made by augment_with_dynamic_resources give in one call;
\* a lookup that raises ends the call, so nothing else is drawn with it.
AugmentEnvs ==
    { env \in [ fault : {"none", "scenario_lookup", "reference_architectures"},
                scenario : Scenarios,
                archs : {ArchsNoRepos, ArchsWithRepo},
                latest_updates : {<<>>, <<"Latest resource">>},
                latest_tool_activity : {<<>>, <<"microsoft/autogen">>},
                tool_info : {<<>>, ToolInfo} ] :
        env.fault # "none" =>
            /\ env.scenario = <<>>
            /\ env.archs = ArchsNoRepos
            /\ env.latest_updates = <<>>
            /\ env.latest_tool_activity = <<>>
            /\ env.tool_info = <<>> }

SCENARIO_STAKEHOLDERS ==
    [ s \in {"loan-approval-model", "rag-enterprise-search"} |->
        IF s = "loan-approval-model"
        THEN <<"Chief Risk Officer", "Compliance Lead", "Model Risk Management">>
        ELSE <<"Knowledge Management Lead", "Data Governance Officer", "Security Architect">> ]

DEFAULT_STAKEHOLDERS ==
    <<"Product Owner", "Responsible AI Champion", "Security & Privacy Lead", "Legal/Compliance Partner">>

\* str(value).lower() if value else ""
_safe_lower(value) ==
    IF Falsy(value) THEN <<>> ELSE [i \in DOMAIN value |-> LowerWord(value[i])]

----------------------------------------------------------------------------
(***************************************************************************)
(* app.py: _select_use_case_scenario                                       *)
(***************************************************************************)

SCENARIO_KEYWORD_HINTS ==
    [ s \in {"customer-chatbot", "ai-agent-automation", "loan-approval-model",
             "content-generation-platform", "healthcare-ai-assistant",
             "rag-enterprise-search", "image-generation-app", "multi-agent-system"} |->
        CASE s = "customer-chatbot" ->
                << <<"chatbot">>, <<"customer">>, <<"support">>, <<"helpdesk">>,
                   <<"contact", "center">>, <<"call", "center">>, <<"service">>, <<"faq">> >>
          [] s = "ai-agent-automation" ->
                << <<"agent">>, <<"automation">>, <<"workflow">>, <<"orchestrator">>,
                   <<"autonomous">>, <<"action">>, <<"process">> >>
          [] s = "loan-approval-model" ->
                << <<"loan">>, <<"credit">>, <<"underwriting">>, <<"finance">>,
                   <<"mortgage">>, <<"lending">> >>
          [] s = "content-generation-platform" ->
                << <<"content">>, <<"marketing">>, <<"copy">>, <<"generation">>,
                   <<"creative">>, <<"social">> >>
          [] s = "healthcare-ai-assistant" ->
                << <<"healthcare">>, <<"medical">>, <<"patient">>, <<"clinician">>,
                   <<"doctor">>, <<"nurse">> >>
          [] s = "rag-enterprise-search" ->
                << <<"rag">>, <<"retrieval">>, <<"search">>, <<"knowledge">>,
                   <<"documents">>, <<"grounding">> >>
          [] s = "image-generation-app" ->
                << <<"image">>, <<"vision">>, <<"generate">>, <<"art">>,
                   <<"graphic">>, <<"media">> >>
          [] OTHER ->
                << <<"multi-agent">>, <<"swarm">>, <<"ensemble">>, <<"agents">>,
                   <<"coordinator">> >> ]

AgentScenarios == <<"ai-agent-automation", "multi-agent-system">>

GenerativeScenarios ==
    <<"customer-chatbot", "content-generation-platform", "rag-enterprise-search">>

PROJECT_TYPE_HINTS ==
    <<"ai", "agent">> :> AgentScenarios @@
    <<"ai-agent">> :> AgentScenarios @@
    <<"ai", "agents">> :> AgentScenarios @@
    <<"llm/generative", "ai">> :> GenerativeScenarios @@
    <<"generative", "ai">> :> GenerativeScenarios @@
    <<"llm">> :> GenerativeScenarios @@
    <<"traditional", "ml">> :> <<"loan-approval-model">> @@
    <<"ml">> :> <<"loan-approval-model">> @@
    <<"computer", "vision">> :> <<"image-generation-app">> @@
    <<"document", "intelligence">> :> <<"rag-enterprise-search">> @@
    <<"general", "ai">> :> <<>>

\* " ".join(values): the words of the non-empty values, in order
RECURSIVE JoinTexts(_)
JoinTexts(values) ==
    IF values = <<>> THEN <<>> ELSE values[1] \o JoinTexts(Tail(values))

\* _tokenize_for_matching: the lower-case runs of letters and digits that are
\* longer than two characters (the words in use hold letters only)
_tokenize_for_matching(values) ==
    { LowerWord(w) : w \in { v \in Range(JoinTexts(values)) : LowerWord(v) \notin ShortWords } }

\* The keyword hints of the scenario that occur in the combined text: 12 each
HintScore(scenario_id, combined_text) ==
    LET hints == DictGet(SCENARIO_KEYWORD_HINTS, scenario_id, <<>>)
    IN  12 * Cardinality({ i \in DOMAIN hints : TextIn(hints[i], combined_text) })

\* The industry of the project occurs in one of the scenario's industries: 10
IndustryScore(industry, industry_relevance) ==
    IF /\ ~Falsy(industry)
       /\ \E i \in DOMAIN industry_relevance :
              TextIn(industry, _safe_lower(industry_relevance[i]))
    THEN 10 ELSE 0

\* The loop over project_type_candidates, in the order the set yields them
RECURSIVE TypeScore(_, _, _)
TypeScore(candidates, scenario_id, scenario_tokens) ==
    IF candidates = <<>> THEN 0
    ELSE LET project_type == Head(candidates)
             rest == TypeScore(Tail(candidates), scenario_id, scenario_tokens)
         IN  IF Falsy(project_type) THEN rest
             ELSE rest
                  + (IF scenario_id \in Range(DictGet(PROJECT_TYPE_HINTS, project_type, <<>>))
                     THEN 14 ELSE 0)
                  + (IF Len(project_type) = 1 /\ project_type[1] \in scenario_tokens
                     THEN 4 ELSE 0)

\* The score of one scenario (lines 288-311)
ScenarioScore(scenario, project_tokens, combined_text, industry, candidates) ==
    LET scenario_tokens ==
            _tokenize_for_matching(<< scenario.title, scenario.description,
                                      JoinTexts(scenario.industry_relevance),
                                      scenario.risk_profile >>)
    IN  Cardinality(project_tokens \cap scenario_tokens)
        + HintScore(scenario.id, combined_text)
        + IndustryScore(industry, scenario.industry_relevance)
        + TypeScore(candidates, scenario.id, scenario_tokens)

\* The comparison with a tie included: a later scenario of equal score would win.
ImprovesOrTies(score, best_score) == score >= best_score

\* if score > best_score
Improves(score, best_score) == score > best_score

\* The loop over the scenarios: <<best_scenario, best_score>> after the i-th
RECURSIVE SelectLoop(_, _, _, _)
SelectLoop(scenarios, scores, i, best) ==
    IF i > Len(scenarios) THEN best
    ELSE IF Improves(scores[i], best[2])
         THEN SelectLoop(scenarios, scores, i + 1, <<scenarios[i], scores[i]>>)
         ELSE SelectLoop(scenarios, scores, i + 1, best)

\* The scores of the scenarios of the catalog for one project
ScenarioScores(project_data, scenarios, candidates) ==
    LET combined_text ==
            _safe_lower(JoinTexts(<< Get(project_data, "project_name"),
                                     Get(project_data, "project_description"),
                                     Get(project_data, "additional_context"),
                                     Get(project_data, "business_problem"),
                                     Get(project_data, "intended_purpose") >>))
        project_tokens ==
            _tokenize_for_matching(<< Get(project_data, "project_name"),
                                      Get(project_data, "project_description"),
                                      Get(project_data, "additional_context"),
                                      Get(project_data, "business_problem"),
                                      Get(project_data, "intended_purpose"),
                                      Get(project_data, "technology_type"),
                                      JoinTexts(Get(project_data, "ai_capabilities")) >>)
        industry == _safe_lower(Get(project_data, "industry"))
    IN  [ i \in DOMAIN scenarios |->
            ScenarioScore(scenarios[i], project_tokens, combined_text, industry, candidates) ]

\* project_type_candidates: a set of lower-case strings
ProjectTypeCandidates(project_data, project_type_hint, ai_response) ==
    { _safe_lower(project_type_hint),
      _safe_lower(Get(project_data, "technology_type")),
      _safe_lower(Get(Get(ai_response, "_adaptive_metadata"), "detected_project_type")) }

\* The orders in which a set can be iterated
Orders(S) ==
    { order \in [1..Cardinality(S) -> S] : \A x \in S : \E i \in DOMAIN order : order[i] = x }

\* The scenarios the loader holds: none when the loader or the catalog is missing
CatalogScenarios(knowledge) ==
    IF ~(knowledge.available /\ knowledge.loader) THEN <<>>
    ELSE Get(Get(knowledge.tools_catalog, "actionable_use_cases"), "scenarios")

\* _select_use_case_scenario, with the set iterated in the given order; None is <<>>
_select_use_case_scenario(project_data, project_type_hint, ai_response, knowledge, order) ==
    LET scenarios == CatalogScenarios(knowledge)
        scores == ScenarioScores(project_data, scenarios, order)
        best == SelectLoop(scenarios, scores, 1, << <<>>, 0 >>)
    IN  IF Falsy(scenarios) THEN <<>>
        ELSE IF best[2] < 6 THEN <<>>
        ELSE best[1]

\* _parse_step: the numbering is dropped and the text split at its first colon
_parse_step(step_text) ==
    CASE step_text = "1. Define fairness metrics: agree thresholds with risk" ->
            <<"Define fairness metrics", "agree thresholds with risk">>
      [] step_text = "2. Run bias assessment" ->
            <<"Run bias assessment", "Run bias assessment">>
      [] step_text = "1. Set up Azure AI environment" ->
            <<"Set up Azure AI environment", "Set up Azure AI environment">>
      [] step_text = "2. Install required libraries" ->
            <<"Install required libraries", "Install required libraries">>
      [] step_text = "3. Configure content safety controls" ->
            <<"Configure content safety controls", "Configure content safety controls">>
      [] step_text = "4. Implement responsible AI practices" ->
            <<"Implement responsible AI practices", "Implement responsible AI practices">>
      [] OTHER -> <<step_text, step_text>>

_build_week_one_checklist(steps) ==
    [ idx \in 1..Len(Take(steps, 4)) |->
        [ task |-> _parse_step(steps[idx])[1],
          priority |-> IF idx <= 2 THEN "High" ELSE "Medium",
          time_estimate |-> IF idx <= 2 THEN "1-2 days" ELSE "3-4 days" ] ]

_build_thirty_day_roadmap(steps) ==
    LET Slice(a, b) == SubSeq(steps, a, Min(b, Len(steps)))
        buckets == [ week_1 |-> Slice(1, 2), week_2 |-> Slice(3, 4),
                     week_3 |-> Slice(5, 5), week_4 |-> Slice(6, 6) ]
        weeks == { w \in DOMAIN buckets : buckets[w] # <<>> }
    IN  [ w \in weeks |->
            [ focus     |-> _parse_step(buckets[w][1])[1],
              actions   |-> [ i \in 1..Len(buckets[w]) |-> _parse_step(buckets[w][i])[2] ],
              milestone |-> _parse_step(buckets[w][Len(buckets[w])])[1] ] ]

_build_structured_steps(steps, quick_start_commands) ==
    [ idx \in 1..Len(Take(steps, 4)) |->
        Merge([ step |-> idx,
                title |-> _parse_step(steps[idx])[1],
                description |-> _parse_step(steps[idx])[2] ],
              IF quick_start_commands # <<>> /\ idx = 2
              THEN [commands |-> Take(quick_start_commands, 3)] ELSE <<>>) ]

(***************************************************************************)
(* app.py: augment_with_dynamic_resources                                  *)
(***************************************************************************)

\* The helpers as they would be if defined at the top level of the module.
HelpersDefinedAlways(dynamic_resources_available) == TRUE

\* The helper functions and tables that the merge uses (_safe_lower,
\* _select_use_case_scenario, _dedupe_preserve_order, SCENARIO_STAKEHOLDERS,
\* ...) are defined in the body of the `except ImportError` clause of the
\* dynamic_resources import: they exist exactly when that import failed.
HelpersDefined(dynamic_resources_available) == ~dynamic_resources_available

\* a or b
Or(a, b) == IF ~Falsy(a) THEN a ELSE b

\* a or b or c
FirstOf3(a, b, c) == Or(a, Or(b, c))

\* if cond: d[k] = v
PutWhen(cond, d, k, v) == IF cond THEN Put(d, k, v) ELSE d

\* if not d.get(k): d[k] = v
Fill(d, k, v) == IF Falsy(Get(d, k)) THEN Put(d, k, v) ELSE d

\* if cond and not d.get(k): d[k] = v
FillWhen(cond, d, k, v) == IF cond /\ Falsy(Get(d, k)) THEN Put(d, k, v) ELSE d

\* repo.get("url", repo.get("html_url", ""))
RepoUrl(repo) == DictGet(repo, "url", Get(repo, "html_url"))

\* Lines 784-789: the principle scores, the fallback filling the principles
\* that have no score.
MergePrincipleScores(risk_scores, fallback_risks) ==
    Put(risk_scores, "principle_scores",
        IF Falsy(Get(risk_scores, "principle_scores")) THEN fallback_risks.principle_scores
        ELSE Merge(fallback_risks.principle_scores, risk_scores.principle_scores))

\* Lines 791-798: the score drivers of the response followed by the fallback's.
MergeCriticalFactors(risk_scores, fallback_risks) ==
    LET existing_factors == DictGet(risk_scores, "critical_factors", <<>>)
        fallback_factors == fallback_risks.critical_factors
        Merged(factor_key) ==
            _dedupe_preserve_order(Get(existing_factors, factor_key) \o Get(fallback_factors, factor_key))
    IN  Put(risk_scores, "critical_factors",
            PutWhen(Merged("score_drivers_negative") # <<>>,
                    PutWhen(Merged("score_drivers_positive") # <<>>,
                            existing_factors, "score_drivers_positive", Merged("score_drivers_positive")),
                    "score_drivers_negative", Merged("score_drivers_negative")))

\* Lines 803-813: the explanation built when the response gives none.
ScoreExplanation(risk_scores, scenario) ==
    LET drivers == Get(Get(risk_scores, "critical_factors"), "score_drivers_negative")
        driver_clause == IF drivers # <<>> THEN <<"Key drivers:">> \o Take(drivers, 2) ELSE <<>>
    IN  IF ~Falsy(Get(scenario, "risk_profile")) THEN scenario.risk_profile \o driver_clause
        ELSE driver_clause

\* Lines 775-782: the summary, a matched scenario's profile put before it.
\* A joined text is the sequence of the parts joined, empty parts left out.
RiskSummary(risk_scores, fallback_risks, scenario) ==
    (IF ~Falsy(Get(scenario, "risk_profile"))
     THEN <<"Scenario assessment:">> \o scenario.risk_profile ELSE <<>>)
    \o Or(Get(risk_scores, "risk_summary"), fallback_risks.risk_summary)

\* Lines 766-813: the risk_scores of the response merged with the fallback.
MergeRiskScores(risk_scores, fallback_risks, scenario) ==
    IF Falsy(risk_scores) THEN fallback_risks
    ELSE
    LET r1 == SetDefault(SetDefault(risk_scores, "overall_score", fallback_risks.overall_score),
                         "risk_level", fallback_risks.risk_level)
        r2 == Put(r1, "risk_summary", RiskSummary(risk_scores, fallback_risks, scenario))
        r3 == MergePrincipleScores(r2, fallback_risks)
        r4 == MergeCriticalFactors(r3, fallback_risks)
        r5 == Fill(r4, "qualitative_assessment", fallback_risks.qualitative_assessment)
    IN  FillWhen(ScoreExplanation(r4, scenario) # <<>>, r5, "score_explanation",
                 ScoreExplanation(r4, scenario))

\* Lines 829-839: the repositories listed in a built reference_architecture.
RepoCards(dynamic_repos) ==
    [ i \in 1..Len(Take(dynamic_repos, 5)) |->
        [ name |-> Get(dynamic_repos[i], "name"),
          url |-> RepoUrl(dynamic_repos[i]),
          description |-> Get(dynamic_repos[i], "description"),
          stars |-> DictGet(dynamic_repos[i], "stars", DictGet(dynamic_repos[i], "stargazers_count", <<0>>)),
          language |-> DictGet(dynamic_repos[i], "language", <<"Python">>),
          last_updated |-> DictGet(dynamic_repos[i], "last_updated", Get(dynamic_repos[i], "updated_at")) ] ]

\* Lines 820-856: the reference_architecture of the document.
ReferenceArchitecture(given, dynamic_archs, dynamic_repos, reference_description) ==
    IF ~Falsy(given) /\ ~Falsy(Get(given, "repos")) THEN given
    ELSE [ description |-> reference_description,
           azure_services |-> DictGet(dynamic_archs, "azure_services",
                <<"Azure OpenAI Service", "Azure AI Studio", "Azure Machine Learning", "Azure Content Safety">>),
           repos |-> RepoCards(dynamic_repos),
           patterns |-> Get(dynamic_archs, "patterns"),
           documentation |-> Get(dynamic_archs, "documentation"),
           microsoft_docs |-> DictGet(dynamic_archs, "microsoft_docs",
                <<"Azure AI Services Documentation", "Responsible AI Overview", "Azure OpenAI Service">>) ]

\* entry.get("tool") or entry.get("name")
EntryName(entry) == Or(Get(entry, "tool"), Get(entry, "name"))

\* The entries of the scenario's tool groups that carry a name.
ScenarioTools(scenario) ==
    SelectSeq(Get(scenario, "required_tools") \o Get(scenario, "recommended_tools"),
              LAMBDA entry : ~Falsy(EntryName(entry)))

\* scenario_tool_lookup.get(lowered): the first entry under that lowered name
ToolLookup(scenario, lowered) ==
    LET tools == ScenarioTools(scenario)
        hits  == { i \in 1..Len(tools) : _safe_lower(EntryName(tools[i])) = lowered }
    IN  IF hits = {} THEN <<>> ELSE tools[CHOOSE i \in hits : \A j \in hits : i <= j]

\* Lines 878-895: the payload of one scenario tool.
ToolPayload(entry, tool_details) ==
    Merge([ name |-> EntryName(entry),
            url |-> FirstOf3(Get(entry, "url"), Get(tool_details, "documentation_url"),
                             Get(tool_details, "url")),
            purpose |-> Or(FirstOf3(Get(entry, "purpose"), Get(tool_details, "primary_purpose"),
                                    Get(tool_details, "description")),
                           <<"Supports responsible AI controls for this scenario.">>) ],
          Opt("install_command", Get(tool_details, "install_command")))

\* Lines 999-1005.
WhyNeeded(tool_lookup, scenario, fallback_risks) ==
    FirstOf3(Get(tool_lookup, "purpose"), Get(scenario, "risk_profile"), fallback_risks.risk_summary)

\* Lines 1016-1026: the catalog's details added to a tool that lacks them.
WithToolMetadata(tool, tool_metadata) ==
    IF Falsy(tool_metadata) THEN tool
    ELSE PutWhen(~Falsy(Get(tool_metadata, "primary_purpose")) /\ "how_it_helps" \notin DOMAIN tool,
                 SetDefault(SetDefault(tool, "purpose",
                                Or(Get(tool_metadata, "primary_purpose"), Get(tool_metadata, "description"))),
                            "url",
                            Or(Get(tool_metadata, "documentation_url"), Get(tool_metadata, "url"))),
                 "how_it_helps", Get(tool_metadata, "primary_purpose"))

\* Lines 1010-1027: the tool of a recommendation, made a dict.
NormalizedTool(tool_entry, tool_lookup, tool_metadata) ==
    LET t0 == IF Get(tool_entry, "type") = <<"dict">> THEN tool_entry
              ELSE ToolDict([name |-> Get(tool_entry, "name")])
        t1 == PutWhen(~Falsy(Get(tool_lookup, "purpose")) /\ "purpose" \notin DOMAIN t0,
                      t0, "purpose", Get(tool_lookup, "purpose"))
        t2 == PutWhen(~Falsy(Get(tool_lookup, "configuration")) /\ "how_it_helps" \notin DOMAIN t1,
                      t1, "how_it_helps", Get(tool_lookup, "configuration"))
    IN  WithToolMetadata(t2, tool_metadata)

\* Lines 985-1033: one recommendation of a pillar.
AugmentRec(rec, scenario, tool_details, fallback_risks, fallback_gap) ==
    LET tool_name  == Get(Get(rec, "tool"), "name")
        tool_lookup == IF ~Falsy(tool_name) THEN ToolLookup(scenario, _safe_lower(tool_name)) ELSE <<>>
        rec1 == Fill(rec, "why_needed", WhyNeeded(tool_lookup, scenario, fallback_risks))
        rec2 == Fill(rec1, "what_happens_without", fallback_gap)
        rec3 == PutWhen(~Falsy(tool_name), rec2, "tool",
                        NormalizedTool(Get(rec, "tool"), tool_lookup, tool_details))
    IN  FillWhen(~Falsy(Get(scenario, "implementation_steps")), rec3, "implementation_steps",
                 Take(Get(scenario, "implementation_steps"), 3))

\* Lines 974-984: one pillar.
AugmentPillar(pillar_data, scenario, tool_details, fallback_risks, fallback_gap) ==
    LET p1 == SetDefault(pillar_data, "why_it_matters",
                         DictGet(scenario, "risk_profile", Get(pillar_data, "pillar_description")))
        p2 == SetDefault(p1, "risk_if_ignored", fallback_gap)
    IN  PutWhen("recommendations" \in DOMAIN pillar_data, p2, "recommendations",
                [ i \in 1..Len(Get(pillar_data, "recommendations")) |->
                    AugmentRec(pillar_data.recommendations[i], scenario, tool_details,
                               fallback_risks, fallback_gap) ])

\* Lines 969-1033: the pillars of the response, under a matched scenario.
AugmentPillars(pillar_recs, scenario, tool_details, fallback_risks) ==
    [ pillar_key \in DOMAIN pillar_recs |->
        AugmentPillar(pillar_recs[pillar_key], scenario, tool_details, fallback_risks,
                      Or(Take(Get(scenario, "common_pitfalls"), 1), fallback_risks.risk_summary)) ]

\* Lines 877-895: the payloads of the scenario's tools.
EssentialTools(scenario, tool_details) ==
    [ i \in 1..Len(ScenarioTools(scenario)) |-> ToolPayload(ScenarioTools(scenario)[i], tool_details) ]

\* Lines 912-922.
QuickReference(scenario) ==
    [ top_3_tools |->
        Take(_dedupe_preserve_order(
                [ i \in 1..Len(Get(scenario, "required_tools")) |->
                    IF Falsy(EntryName(scenario.required_tools[i])) THEN ""
                    ELSE EntryName(scenario.required_tools[i])[1] ]), 3),
      key_metrics |-> Take(Get(scenario, "success_metrics"), 4),
      red_flags |-> Take(Get(scenario, "common_pitfalls"), 4),
      stakeholders_to_involve |->
        Take(_dedupe_preserve_order(
                DictGet(SCENARIO_STAKEHOLDERS, Get(scenario, "id")[1], <<>>)
                \o DEFAULT_STAKEHOLDERS), 5) ]

\* Lines 923-925: the entries of a dict whose value is not empty.
NonEmptyItems(d) == [ key \in { k \in DOMAIN d : d[k] # <<>> } |-> d[key] ]

\* Lines 897-948: quick_start_guide under a matched scenario.
ScenarioGuide(guide, scenario, tool_details, quick_start_commands, project_type_source) ==
    LET scenario_steps == Get(scenario, "implementation_steps")
        g1 == FillWhen(EssentialTools(scenario, tool_details) # <<>>, guide, "essential_tools",
                       Take(EssentialTools(scenario, tool_details), 6))
        g2 == FillWhen(scenario_steps # <<>>, g1, "week_one_checklist",
                       _build_week_one_checklist(scenario_steps))
        g3 == FillWhen(scenario_steps # <<>> /\ _build_thirty_day_roadmap(scenario_steps) # <<>>,
                       g2, "thirty_day_roadmap", _build_thirty_day_roadmap(scenario_steps))
        g4 == FillWhen(scenario_steps # <<>>, g3, "steps",
                       _build_structured_steps(scenario_steps, quick_start_commands))
        g5 == Fill(g4, "quick_reference", NonEmptyItems(QuickReference(scenario)))
        g6 == Fill(g5, "templates_and_checklists",
                   <<"Microsoft Responsible AI Standard", "Responsible AI Impact Assessment">>)
        g7 == SetDefault(g6, "detected_project_type",
                         FirstOf3(Get(scenario, "title"), project_type_source, <<"AI Solution">>))
        g8 == PutWhen(~Falsy(Get(scenario, "risk_profile")), g7, "risk_profile",
                      Get(scenario, "risk_profile"))
    IN  PutWhen(~Falsy(Get(scenario, "title")), g8, "scenario_title", Get(scenario, "title"))

\* Lines 953-955: the tasks of the first entries of the checklist.
FirstWeekActions(checklist) == [ i \in 1..Len(Take(checklist, 4)) |-> checklist[i].task ]

\* Lines 950-967: quick_start under a matched scenario; `guide` is the
\* quick_start_guide as ScenarioGuide left it.
ScenarioSummary(summary, guide, scenario, tool_details, dynamic_repos, architecture_text) ==
    LET s1 == PutWhen(EssentialTools(scenario, tool_details) # <<>>, summary, "essential_tools",
                      Take(EssentialTools(scenario, tool_details), 3))
        s2 == PutWhen(~Falsy(Get(guide, "week_one_checklist")), s1, "first_week_actions",
                      FirstWeekActions(Get(guide, "week_one_checklist")))
        s3 == SetDefault(s2, "reference_architecture", architecture_text)
        s4 == IF dynamic_repos # <<>>
              THEN Put(s3, "starter_repo", RepoUrl(dynamic_repos[1]))
              ELSE SetDefault(s3, "starter_repo", <<"https://github.com/microsoft/responsible-ai-toolbox">>)
        s5 == PutWhen(~Falsy(Get(scenario, "risk_profile")), s4, "risk_profile",
                      Get(scenario, "risk_profile"))
    IN  PutWhen(~Falsy(Get(scenario, "title")), s5, "scenario", Get(scenario, "title"))

\* Lines 1035-1067: the default guide, when no scenario matched and the
\* response brought no steps.
DefaultGuide(guide, dynamic_archs, dynamic_repos, quick_start_commands, type_text) ==
    LET a == Put(guide, "title", <<"Getting Started with">> \o type_text \o <<"Development">>)
        b == Put(a, "description", <<"Essential steps to set up your responsible AI project">>)
        c == Put(b, "steps",
                 _build_structured_steps(
                    << "1. Set up Azure AI environment",
                       "2. Install required libraries",
                       "3. Configure content safety controls",
                       "4. Implement responsible AI practices" >>,
                    quick_start_commands))
        d == SetDefault(c, "resources",
                 DictGet(dynamic_archs, "documentation",
                    DictGet(dynamic_archs, "microsoft_docs",
                        <<"Azure AI Quickstart", "Responsible AI Toolbox">>)))
    IN  SetDefault(d, "starter_repos",
            [ i \in 1..Len(Take(dynamic_repos, 3)) |->
                [ name |-> Get(dynamic_repos[i], "name"), url |-> RepoUrl(dynamic_repos[i]) ] ])

\* Lines 1069-1109: the defaults of quick_start; `guide` is the final
\* quick_start_guide.
SummaryFallbacks(summary, guide, dynamic_repos, architecture_text) ==
    LET s1 == Fill(summary, "essential_tools",
                   DictGet(guide, "essential_tools",
                       << [name |-> <<"Azure Content Safety">>],
                          [name |-> <<"Responsible AI Toolbox">>],
                          [name |-> <<"Prompt Flow">>] >>))
        s2 == Fill(s1, "first_week_actions",
                   << "Set up Azure OpenAI with content filtering",
                      "Configure Azure AI Content Safety for user interactions",
                      "Install Fairlearn and run a baseline bias assessment",
                      "Enable monitoring with Azure Application Insights" >>)
        s3 == Fill(s2, "reference_architecture", architecture_text)
    IN  Fill(s3, "starter_repo",
             IF dynamic_repos # <<>> THEN RepoUrl(dynamic_repos[1])
             ELSE <<"https://github.com/microsoft/responsible-ai-toolbox">>)

\* Lines 864-869: the research results put into the guide.
GuideUpdates(guide, latest_updates, latest_tool_activity) ==
    FillWhen(latest_tool_activity # <<>>,
             FillWhen(latest_updates # <<>>, guide, "latest_updates", latest_updates),
             "latest_tool_activity", latest_tool_activity)

\* Lines 858-1067: the quick_start_guide of the document.
QuickStartGuide(given, scenario, tool_details, archs, repos, commands, type_source, updates, activity) ==
    LET g1 == GuideUpdates(given, updates, activity)
        g2 == IF ~Falsy(scenario)
              THEN ScenarioGuide(g1, scenario, tool_details, commands, type_source)
              ELSE g1
    IN  IF Falsy(Get(g2, "steps")) /\ Falsy(scenario)
        THEN DefaultGuide(g2, archs, repos, commands, Or(type_source, <<"AI">>))
        ELSE g2

\* Lines 861-1109: the quick_start of the document.
QuickStartSummary(given, guide, scenario, tool_details, repos, activity, text, default_text) ==
    LET s1 == FillWhen(activity # <<>>, given, "latest_tool_activity", Take(activity, 3))
        s2 == IF ~Falsy(scenario)
              THEN ScenarioSummary(s1, guide, scenario, tool_details, repos, text)
              ELSE s1
    IN  SummaryFallbacks(s2, guide, repos, default_text)

\* Lines 729-1111: the merge proper, once the lookups have answered.
MergeDynamicResources(ai_response, project_data, knowledge_available, env) ==
    LET project_type_source ==
            FirstOf3(Get(ai_response, "detected_project_type"),
                     Get(Get(ai_response, "_adaptive_metadata"), "detected_project_type"),
                     Get(project_data, "technology_type"))
        scenario == IF knowledge_available THEN env.scenario ELSE <<>>
        tool_details == IF knowledge_available THEN env.tool_info ELSE <<>>
        dynamic_archs == env.archs
        dynamic_repos == Or(Get(dynamic_archs, "github_repos"), Get(dynamic_archs, "repos"))
        quick_start_commands == Get(dynamic_archs, "quick_start_commands")
        fallback_risks == calculate_basic_risk_scores(project_data)
        reference_description ==
            DictGet(dynamic_archs, "description",
                    <<"Reference architecture for">>
                    \o (IF ~Falsy(scenario) THEN Get(scenario, "title")
                        ELSE Or(project_type_source, <<"AI">>))
                    \o <<"projects">>)
        reference_architecture ==
            ReferenceArchitecture(Get(ai_response, "reference_architecture"), dynamic_archs,
                                  dynamic_repos, reference_description)
        guide == QuickStartGuide(Get(ai_response, "quick_start_guide"), scenario, tool_details,
                                 dynamic_archs, dynamic_repos, quick_start_commands,
                                 project_type_source, env.latest_updates, env.latest_tool_activity)
        summary == QuickStartSummary(
                      Get(ai_response, "quick_start"), guide, scenario, tool_details,
                      dynamic_repos, env.latest_tool_activity,
                      DictGet(reference_architecture, "description", reference_description),
                      DictGet(reference_architecture, "description",
                          DictGet(dynamic_archs, "description",
                              <<"Azure AI + Content Safety architecture for">>
                              \o Or(project_type_source, <<"AI">>) \o <<"applications">>)))
        a1 == Put(ai_response, "risk_scores",
                  MergeRiskScores(Get(ai_response, "risk_scores"), fallback_risks, scenario))
        a2 == Put(a1, "reference_architecture", reference_architecture)
        a3 == FillWhen(env.latest_updates # <<>>, a2, "latest_resources", env.latest_updates)
        a4 == PutWhen(~Falsy(scenario) /\ "recommendations_by_pillar" \in DOMAIN ai_response, a3,
                      "recommendations_by_pillar",
                      AugmentPillars(Get(ai_response, "recommendations_by_pillar"), scenario,
                                     tool_details, fallback_risks))
    IN  Put(Put(a4, "quick_start_guide", guide), "quick_start", summary)

\* The exception, if any, that ends the lookups of lines 729-740: the name
\* _safe_lower is unbound at line 735 unless the helpers were defined; the
\* scenario lookup (738) and the reference-architecture fetch (740) stand
\* outside every inner try.
AugmentFault(dynamic_resources_available, env) ==
    IF ~dynamic_resources_available THEN "none"
    ELSE IF ~HelpersDefined(dynamic_resources_available) THEN "name_error"
    ELSE env.fault

\* augment_with_dynamic_resources: lines 725-726 return the response as it
\* is; an exception reaches lines 1113-1115, which return it as it then is.
augment_with_dynamic_resources(ai_response, project_data, globals, env) ==
    IF ~globals.DYNAMIC_RESOURCES_AVAILABLE THEN ai_response
    ELSE IF AugmentFault(globals.DYNAMIC_RESOURCES_AVAILABLE, env) # "none" THEN ai_response
    ELSE MergeDynamicResources(ai_response, project_data, globals.KNOWLEDGE_AVAILABLE, env)

(***************************************************************************)
(* app.py: submit_review and the generation functions                      *)
(***************************************************************************)

\* The module globals set while app.py is imported (lines 32-63, 397-422).
Globals ==
    [ ADAPTIVE_SYSTEM_AVAILABLE : BOOLEAN, KNOWLEDGE_AVAILABLE : BOOLEAN,
      DYNAMIC_RESOURCES_AVAILABLE : BOOLEAN, client : BOOLEAN ]

NoGlobals ==
    [ ADAPTIVE_SYSTEM_AVAILABLE |-> FALSE, KNOWLEDGE_AVAILABLE |-> FALSE,
      DYNAMIC_RESOURCES_AVAILABLE |-> FALSE, client |-> FALSE ]

\* A request that has not been read yet.
NewRequest(globals) ==
    [ pc |-> "start", globals |-> globals, project_data |-> <<>>, gen_calls |-> 0,
      ai_response |-> <<>>, generated |-> <<>>, raised |-> "not_called",
      status |-> 0, response |-> <<>> ]

ReqIdle == [NewRequest(NoGlobals) EXCEPT !.pc = "none"]

InitRequest == req \in { NewRequest(globals) : globals \in Globals }

\* Lines 1288-1295, with the project type that response_adapter falls back to.
AdaptiveMetadata == [detected_project_type |-> <<"General AI">>]

\* Lines 1852-1856 of submit_review, on what the generation returned: a JSON
\* number or null has no `in`, a list holds no such key.
AfterGeneration(kind, ai_response) ==
    CASE kind = "scalar" -> "error"
      [] kind = "list"   -> "static"
      [] OTHER ->
            IF /\ ("recommendations" \in DOMAIN ai_response
                     \/ "recommendations_by_pillar" \in DOMAIN ai_response)
               /\ Falsy(Get(ai_response, "fallback"))
            THEN "augment" ELSE "static"

\* Lines 1843-1847: the body is read and the path chosen.
SubmitReview(parsed, body) ==
    /\ req.pc = "start"
    /\ req' = IF ~parsed THEN [req EXCEPT !.pc = "error"]
              ELSE [req EXCEPT !.project_data = body,
                               !.pc = IF req.globals.client THEN "adaptive" ELSE "static"]
    /\ UNCHANGED <<pr, now, cache, openai_client, inv, call>>

\* generate_recommendations_adaptive, lines 1246-1302.
GenerateAdaptive(outcome, doc) ==
    /\ req.pc = "adaptive"
    /\ req' =
         IF ~req.globals.client THEN [req EXCEPT !.pc = AfterGeneration("list", <<>>)]
         ELSE IF ~req.globals.ADAPTIVE_SYSTEM_AVAILABLE THEN [req EXCEPT !.pc = "legacy"]
         ELSE IF outcome = "object"
              THEN LET ai_response == Put(doc, "_adaptive_metadata", AdaptiveMetadata)
                   IN  [req EXCEPT !.gen_calls = @ + 1,
                                   !.ai_response = ai_response,
                                   !.pc = AfterGeneration("dict", ai_response)]
              ELSE [req EXCEPT !.gen_calls = @ + 1, !.pc = "legacy"]
    /\ UNCHANGED <<pr, now, cache, openai_client, inv, call>>

\* generate_recommendations_with_ai_legacy, lines 1305-1345.
GenerateLegacy(outcome, doc) ==
    /\ req.pc = "legacy"
    /\ req' =
         IF ~req.globals.client THEN [req EXCEPT !.pc = AfterGeneration("list", <<>>)]
         ELSE IF outcome \in {"object", "list", "scalar"}
              THEN LET kind == IF outcome = "object" THEN "dict" ELSE outcome
                       ai_response == IF outcome = "object" THEN doc ELSE <<>>
                   IN  [req EXCEPT !.gen_calls = @ + 1,
                                   !.ai_response = ai_response,
                                   !.pc = AfterGeneration(kind, ai_response)]
              ELSE LET ai_response ==
                           [ error |-> <<outcome>>, fallback |-> <<TRUE>>,
                             recommendations |-> generate_recommendations_static(req.project_data) ]
                   IN  [req EXCEPT !.gen_calls = @ + 1,
                                   !.ai_response = ai_response,
                                   !.pc = AfterGeneration("dict", ai_response)]
    /\ UNCHANGED <<pr, now, cache, openai_client, inv, call>>

\* Lines 1857-1865: the response is augmented and returned.
ReturnAI(env) ==
    /\ req.pc = "augment"
    /\ LET ai_response == augment_with_dynamic_resources(req.ai_response, req.project_data,
                                                          req.globals, env)
       IN  req' = [req EXCEPT
                !.generated = req.ai_response,
                !.raised = AugmentFault(req.globals.DYNAMIC_RESOURCES_AVAILABLE, env),
                !.ai_response = ai_response,
                !.response = Merge([ submission_id |-> <<"uuid4">>,
                                     project_name |-> <<req.project_data.project_name>>,
                                     ai_powered |-> <<TRUE>> ],
                                   ai_response),
                !.status = 200,
                !.pc = "done"]
    /\ UNCHANGED <<pr, now, cache, openai_client, inv, call>>

\* Lines 1867-1891: the static document.
ReturnStatic ==
    /\ req.pc = "static"
    /\ LET recommendations == generate_recommendations_static(req.project_data)
       IN  req' = [req EXCEPT
                !.response =
                    [ submission_id |-> <<"uuid4">>,
                      project_name |-> <<req.project_data.project_name>>,
                      recommendations |-> recommendations,
                      status |-> <<"completed">>,
                      summary |->
                        [ total_recommendations |-> <<Len(recommendations)>>,
                          critical_items |-> <<CountPriority(recommendations, "Critical")>>,
                          high_priority_items |-> <<CountPriority(recommendations, "High")>> ],
                      microsoft_rai_resources |->
                        [ overview |-> <<"https://www.microsoft.com/ai/responsible-ai">> ],
                      risk_scores |-> calculate_basic_risk_scores(req.project_data),
                      recommendations_by_pillar |->
                        build_static_pillar_recommendations(recommendations) ],
                !.status = 200,
                !.pc = "done"]
    /\ UNCHANGED <<pr, now, cache, openai_client, inv, call>>

\* Lines 1892-1893.
ReturnError ==
    /\ req.pc = "error"
    /\ req' = [req EXCEPT !.response = [error |-> <<"str(e)">>], !.status = 500, !.pc = "done"]
    /\ UNCHANGED <<pr, now, cache, openai_client, inv, call>>

\* The server takes the next request.
NextRequest ==
    /\ req.pc = "done"
    /\ req' = NewRequest(req.globals)
    /\ UNCHANGED <<pr, now, cache, openai_client, inv, call>>

NextReq ==
    \/ \E parsed \in BOOLEAN, body \in ProjectData : SubmitReview(parsed, body)
    \/ \E outcome \in GenOutcomes : \E doc \in DocsFor(outcome) : GenerateAdaptive(outcome, doc)
    \/ \E outcome \in GenOutcomes : \E doc \in DocsFor(outcome) : GenerateLegacy(outcome, doc)
    \/ \E env \in AugmentEnvs : ReturnAI(env)
    \/ ReturnStatic
    \/ ReturnError
    \/ NextRequest

----------------------------------------------------------------------------
(***************************************************************************)
(* app.py: a call of _select_use_case_scenario                             *)
(***************************************************************************)

\* The profiles the matching is tried on
ScenProjects ==
    { [ project_name |-> n, project_description |-> d,
        technology_type |-> t, industry |-> ind ] :
        n \in { <<>>, <<"Loan", "agents">> },
        d \in { <<>>, <<"patient", "chatbot">> },
        t \in { <<>>, <<"LLM">>, <<"Traditional", "ML">> },
        ind \in { <<>>, <<"Healthcare">>, <<"Financial">> } }

ScenTypeHints == { <<>>, <<"AI", "Agent">> }

ScenResponses ==
    { <<>>, [ _adaptive_metadata |-> [ detected_project_type |-> <<"llm">> ] ] }

\* Scenarios of the kind the catalog file holds
ChatbotScenario ==
    [ id |-> "customer-chatbot", title |-> <<"Customer", "chatbot">>, description |-> <<>>,
      industry_relevance |-> << <<"Retail">>, <<"Healthcare">> >>, risk_profile |-> <<"medium">> ]

LoanScenario ==
    [ id |-> "loan-approval-model", title |-> <<"Loan", "approval">>, description |-> <<>>,
      industry_relevance |-> << <<"Financial", "Services">> >>, risk_profile |-> <<"high">> ]

HealthScenario ==
    [ id |-> "healthcare-ai-assistant", title |-> <<"patient", "assistant">>, description |-> <<>>,
      industry_relevance |-> << <<"Healthcare">> >>, risk_profile |-> <<"high">> ]

AgentScenario ==
    [ id |-> "ai-agent-automation", title |-> <<"AI", "Agent">>, description |-> <<>>,
      industry_relevance |-> <<>>, risk_profile |-> <<"medium">> ]

\* A scenario without an id: scenario.get("id", "") is ""
PlainScenario ==
    [ id |-> "", title |-> <<"Loan", "patient">>, description |-> <<>>,
      industry_relevance |-> <<>>, risk_profile |-> <<>> ]

CatalogEntries == { ChatbotScenario, LoanScenario, HealthScenario, AgentScenario, PlainScenario }

MaxScenarios == 3

\* The catalogs: up to MaxScenarios different scenarios in any order
ScenarioLists ==
    UNION { { s \in [1..n -> CatalogEntries] : \A i, j \in 1..n : i # j => s[i] # s[j] } :
            n \in 0..MaxScenarios }

\* KNOWLEDGE_AVAILABLE, knowledge_loader and the catalog it holds
Knowledge ==
    { [ available |-> FALSE, loader |-> FALSE, tools_catalog |-> <<>> ] }
    \cup { [ available |-> TRUE, loader |-> TRUE,
             tools_catalog |-> [ actionable_use_cases |-> [ scenarios |-> s ] ] ] :
           s \in ScenarioLists }

InitSelect ==
    call \in [ fn : {"_select_use_case_scenario"}, pc : {"called"},
               project_data : ScenProjects, project_type_hint : ScenTypeHints,
               ai_response : ScenResponses, knowledge : Knowledge, result : { <<>> } ]

Candidates == ProjectTypeCandidates(call.project_data, call.project_type_hint, call.ai_response)

\* The call runs to its return; the set of candidates is iterated in some order.
SelectScenario(order) ==
    /\ call.fn = "_select_use_case_scenario"
    /\ call.pc = "called"
    /\ call' = [ call EXCEPT
                   !.pc = "returned",
                   !.result = _select_use_case_scenario(call.project_data, call.project_type_hint,
                                                        call.ai_response, call.knowledge, order) ]
    /\ UNCHANGED <<pr, now, cache, openai_client, inv, req>>

NextSelect == \E order \in Orders(Candidates) : SelectScenario(order)

----------------------------------------------------------------------------
(***************************************************************************)
(* app.py: the score _select_use_case_scenario gives a scenario            *)
(***************************************************************************)

\* The responses of the generation: no metadata, or a detected project type
ScoreResponses ==
    ScenResponses
    \cup { [ _adaptive_metadata |-> [ detected_project_type |-> <<"LLM/Generative", "AI">> ] ] }

\* A catalog of one scenario
InitScore ==
    call \in [ fn : {"_select_use_case_scenario"}, pc : {"called"},
               project_data : ScenProjects, project_type_hint : ScenTypeHints,
               ai_response : ScoreResponses,
               knowledge : { k \in Knowledge : Len(CatalogScenarios(k)) = 1 },
               scores : { <<>> }, result : { <<>> } ]

\* The call runs to its return; scores holds the value of `score` at line 313
\* for each scenario of the catalog.
ScoreScenario(order) ==
    /\ call.fn = "_select_use_case_scenario"
    /\ call.pc = "called"
    /\ call' = [ call EXCEPT
                   !.pc = "returned",
                   !.scores = ScenarioScores(call.project_data,
                                             CatalogScenarios(call.knowledge), order),
                   !.result = _select_use_case_scenario(call.project_data, call.project_type_hint,
                                                        call.ai_response, call.knowledge, order) ]
    /\ UNCHANGED <<pr, now, cache, openai_client, inv, req>>

NextScore == \E order \in Orders(Candidates) : ScoreScenario(order)

----------------------------------------------------------------------------
(***************************************************************************)
(* response_adapter.py: InputAssessor.assess_input                         *)
(*                                                                         *)
(* A field value is the sequence of its pieces: " " is a run of white      *)
(* space, any other piece is text that neither begins nor ends with white  *)
(* space.  None and "" are the empty sequence.                             *)
(***************************************************************************)

\* The keys of FIELD_WEIGHTS, in the order of the dict
FieldNames ==
    << "project_name", "project_description", "deployment_stage", "technology_type",
       "industry", "target_users", "data_types", "additional_context",
       "intended_purpose", "business_problem", "end_users", "data_sources",
       "data_collection_storage", "sensitive_data", "ai_models", "model_type",
       "environments_connectors", "bias_checking", "bias_mitigation",
       "decision_explainability", "output_documentation", "system_ownership",
       "escalation_paths", "data_security", "privacy_compliance", "potential_risks",
       "risk_monitoring", "user_interaction_method", "human_in_loop" >>

FIELD_WEIGHTS ==
    "project_name" :> 10 @@ "project_description" :> 15 @@
    "deployment_stage" :> 10 @@ "technology_type" :> 10 @@ "industry" :> 10 @@
    "target_users" :> 8 @@ "data_types" :> 8 @@ "additional_context" :> 5 @@
    "intended_purpose" :> 8 @@ "business_problem" :> 5 @@ "end_users" :> 5 @@
    "data_sources" :> 5 @@ "data_collection_storage" :> 5 @@ "sensitive_data" :> 8 @@
    "ai_models" :> 5 @@ "model_type" :> 5 @@ "environments_connectors" :> 3 @@
    "bias_checking" :> 5 @@ "bias_mitigation" :> 5 @@ "decision_explainability" :> 5 @@
    "output_documentation" :> 3 @@ "system_ownership" :> 5 @@ "escalation_paths" :> 3 @@
    "data_security" :> 5 @@ "privacy_compliance" :> 5 @@ "potential_risks" :> 8 @@
    "risk_monitoring" :> 5 @@ "user_interaction_method" :> 3 @@ "human_in_loop" :> 5

ResponseDepth == {"minimal", "basic", "standard", "comprehensive"}

DEPTH_THRESHOLDS ==
    "minimal" :> 0 @@ "basic" :> 25 @@ "standard" :> 50 @@ "comprehensive" :> 75

\* str.strip(): the white space at both ends is dropped
RECURSIVE StripLeft(_)
StripLeft(value) ==
    IF value # <<>> /\ Head(value) = " " THEN StripLeft(Tail(value)) ELSE value

RECURSIVE StripRight(_)
StripRight(value) ==
    IF value # <<>> /\ value[Len(value)] = " "
    THEN StripRight(SubSeq(value, 1, Len(value) - 1))
    ELSE value

Strip(value) == StripRight(StripLeft(value))

\* str.lower()
LowerText(value) == [i \in DOMAIN value |-> LowerWord(value[i])]

Sentinels == { <<"not specified">>, <<"not provided">>, <<"n/a">>, <<"none">> }

\* value and str(value).strip() and str(value).lower() not in [...]
CountsAsProvided(value) ==
    ~Falsy(value) /\ ~Falsy(Strip(value)) /\ LowerText(value) \notin Sentinels

\* provided_fields and missing_fields after the loop of lines 120-126
ProvidedFields(project_data) ==
    SelectSeq(FieldNames, LAMBDA f : CountsAsProvided(Get(project_data, f)))

MissingFields(project_data) ==
    SelectSeq(FieldNames, LAMBDA f : ~CountsAsProvided(Get(project_data, f)))

\* sum(...)
RECURSIVE SumWeights(_)
SumWeights(fields) ==
    IF fields = <<>> THEN 0 ELSE FIELD_WEIGHTS[Head(fields)] + SumWeights(Tail(fields))

\* round(): to the nearest integer, a half to the even neighbour
RoundHalfEven(num, den) ==
    LET q == num \div den
        r == num % den
    IN  IF 2 * r < den THEN q
        ELSE IF 2 * r > den THEN q + 1
        ELSE IF q % 2 = 0 THEN q ELSE q + 1

\* The achieved weight taken for the score as it is.
CompletenessUnscaled(achieved_weight, total_weight) == achieved_weight

\* round((achieved_weight / total_weight) * 100)
CompletenessScore(achieved_weight, total_weight) ==
    RoundHalfEven(100 * achieved_weight, total_weight)

\* sorted(DEPTH_THRESHOLDS.items(), key=threshold, reverse=True)
SortedDepths ==
    CHOOSE s \in [1..Cardinality(ResponseDepth) -> ResponseDepth] :
        \A i, j \in DOMAIN s : i < j => DEPTH_THRESHOLDS[s[i]] > DEPTH_THRESHOLDS[s[j]]

\* The threshold test with the boundary left to the lower tier.
ReachesAbove(completeness_score, threshold) == completeness_score > threshold

\* if completeness_score >= threshold
Reaches(completeness_score, threshold) == completeness_score >= threshold

\* The loop of lines 131-135 from the i-th tier on
RECURSIVE DepthFrom(_, _)
DepthFrom(completeness_score, i) ==
    IF i > Len(SortedDepths) THEN "minimal"
    ELSE IF Reaches(completeness_score, DEPTH_THRESHOLDS[SortedDepths[i]])
         THEN SortedDepths[i]
         ELSE DepthFrom(completeness_score, i + 1)

assess_input(project_data) ==
    LET provided_fields == ProvidedFields(project_data)
        missing_fields == MissingFields(project_data)
        total_weight == SumWeights(FieldNames)
        achieved_weight == SumWeights(provided_fields)
        completeness_score == CompletenessScore(achieved_weight, total_weight)
    IN  [ completeness_score |-> completeness_score,
          response_depth     |-> DepthFrom(completeness_score, 1),
          provided_fields    |-> provided_fields,
          missing_critical   |->
              SelectSeq(<<"project_name", "project_description">>,
                        LAMBDA f : f \in Range(missing_fields)),
          suggestions        |->
              Take(SelectSeq(missing_fields, LAMBDA f : FIELD_WEIGHTS[f] >= 8), 5),
          field_count        |-> Len(provided_fields),
          total_fields       |-> Len(FieldNames) ]

\* The values a field is posted with
FieldValues ==
    { <<>>, <<" ">>, <<"text">>, <<" ", "text">>, <<"N/A">>, <<"none">>,
      <<" ", "n/a", " ">>, <<"Not Specified">> }

\* The profiles: the fields from the i-th to the j-th filled in
WindowProfile(i, j) == [ f \in { FieldNames[k] : k \in i..j } |-> <<"text">> ]

Profiles == { WindowProfile(i, j) : i \in 1..Len(FieldNames), j \in 0..Len(FieldNames) }

\* One profile, and one field of it about to be posted with another value
InitAssess ==
    call \in [ fn : {"assess_input"}, pc : {"called"}, project_data : Profiles,
               field : Range(FieldNames), value : FieldValues,
               result : { <<>> }, result_with : { <<>> } ]

\* assess_input on the profile, and on the profile with the field changed
AssessInput ==
    /\ call.fn = "assess_input"
    /\ call.pc = "called"
    /\ call' = [ call EXCEPT
                   !.pc = "returned",
                   !.result = assess_input(call.project_data),
                   !.result_with = assess_input(Put(call.project_data, call.field, call.value)) ]
    /\ UNCHANGED <<pr, now, cache, openai_client, inv, req>>

NextAssess == AssessInput

----------------------------------------------------------------------------
(***************************************************************************)
(* app.py: a call of calculate_basic_risk_scores                           *)
(***************************************************************************)

RiskDescriptions ==
    Descriptions \cup
    { "", "patient diagnosis history", "student health records", "payment with face scan",
      "bank payment with facial biometric check for a minor patient" }

RiskCapabilityLists ==
    { <<>>, <<"personal_data">>, <<"chat">>, <<"chat", "health_data">> }

RiskProfiles ==
    [ project_name : {"Loan Bot"}, deployment_stage : DeploymentStages,
      project_description : RiskDescriptions, ai_capabilities : RiskCapabilityLists ]

InitRisk ==
    call \in [ fn : {"calculate_basic_risk_scores"}, pc : {"called"},
               project_data : RiskProfiles, result : { <<>> } ]

CalculateRisk ==
    /\ call.fn = "calculate_basic_risk_scores"
    /\ call.pc = "called"
    /\ call' = [ call EXCEPT !.pc = "returned",
                             !.result = calculate_basic_risk_scores(call.project_data) ]
    /\ UNCHANGED <<pr, now, cache, openai_client, inv, req>>

NextRisk == CalculateRisk

----------------------------------------------------------------------------
(***************************************************************************)
(* knowledge_loader.py and the start of app.py                             *)
(***************************************************************************)

\* knowledge/rai_tools_catalog.json as the process finds it
CatalogFiles ==
    { [ kind |-> "missing", data |-> <<>> ],
      [ kind |-> "invalid_json", data |-> <<>> ],
      [ kind |-> "valid",
        data |-> [ actionable_use_cases |-> [ scenarios |-> <<LoanScenario>> ] ] ] }

\* KnowledgeLoader._load_json: {} for a missing file and for a file that
\* does not parse, the parsed data otherwise
_load_json(file) ==
    IF file.kind = "missing" THEN <<>>
    ELSE IF file.kind = "invalid_json" THEN <<>>
    ELSE file.data

\* KnowledgeLoader._get_cached_or_load: <<is cached, data>> in and out
_get_cached_or_load(cache_entry, file) ==
    IF ~cache_entry[1] THEN <<TRUE, _load_json(file)>> ELSE cache_entry

\* The process before app.py has run
InitModule ==
    /\ call \in [ fn : {"module_init"}, pc : {"importing"}, catalog_file : CatalogFiles,
                  KNOWLEDGE_AVAILABLE : {FALSE}, knowledge_loader : {FALSE},
                  _cache : { <<FALSE, <<>>>> } ]
    /\ req = ReqIdle

\* Lines 42-46 of app.py: the import succeeds and get_knowledge_loader()
\* builds the loader, which reads no file.
ImportKnowledge ==
    /\ call.fn = "module_init"
    /\ call.pc = "importing"
    /\ call' = [ call EXCEPT !.pc = "imported", !.KNOWLEDGE_AVAILABLE = TRUE,
                             !.knowledge_loader = TRUE ]
    /\ UNCHANGED <<pr, now, cache, openai_client, inv, req>>

\* The module is loaded and the server takes requests: the other globals
\* are as their imports and the environment left them.
StartServing(globals) ==
    /\ call.fn = "module_init"
    /\ call.pc = "imported"
    /\ globals.KNOWLEDGE_AVAILABLE = call.KNOWLEDGE_AVAILABLE
    /\ call' = [ call EXCEPT !.pc = "serving" ]
    /\ req' = NewRequest(globals)
    /\ UNCHANGED <<pr, now, cache, openai_client, inv>>

\* knowledge_loader.tools_catalog is read for the first time or again
ReadCatalog ==
    /\ call.fn = "module_init"
    /\ call.pc = "serving"
    /\ call.knowledge_loader
    /\ call' = [ call EXCEPT !._cache = _get_cached_or_load(call._cache, call.catalog_file) ]
    /\ UNCHANGED <<pr, now, cache, openai_client, inv, req>>

NextBoot ==
    \/ ImportKnowledge
    \/ \E globals \in Globals : StartServing(globals)
    \/ ReadCatalog
    \/ NextReq

----------------------------------------------------------------------------
(***************************************************************************)
(* app.py: the tool lists of augment_with_dynamic_resources (873-922)      *)
(***************************************************************************)

\* Entries of a scenario's required_tools and recommended_tools
ToolEntries ==
    { [ tool |-> <<"Presidio">>, purpose |-> <<"Detect personal data">> ],
      [ name |-> <<"presidio">>, purpose |-> <<"Mask personal data">> ],
      [ tool |-> <<"Fairlearn">>, purpose |-> <<"Measure disparity">> ] }

MaxTools == 2

ToolLists == UNION { [1..n -> ToolEntries] : n \in 0..MaxTools }

ToolScenarios ==
    { [ id |-> <<"loan-approval-model">>, title |-> <<"Loan approval model">>,
        required_tools |-> required, recommended_tools |-> recommended ] :
      required \in ToolLists, recommended \in ToolLists }

\* quick_start_guide as the generated response brings it
GeneratedGuides ==
    { <<>>,
      [ essential_tools |->
          << [ name |-> <<"Presidio">>, url |-> <<"https://microsoft.github.io/presidio/">>,
               purpose |-> <<"Generated">> ] >> ] }

InitTools ==
    call \in [ fn : {"essential_tools"}, pc : {"called"}, scenario : ToolScenarios,
               quick_start_guide : GeneratedGuides, guide : { <<>> }, summary : { <<>> } ]

\* Lines 873-967 for a matched scenario: the guide and the summary are filled.
AssembleTools ==
    /\ call.fn = "essential_tools"
    /\ call.pc = "called"
    /\ LET guide == ScenarioGuide(call.quick_start_guide, call.scenario, <<>>, <<>>, <<>>)
       IN  call' = [ call EXCEPT
                       !.pc = "returned",
                       !.guide = guide,
                       !.summary = ScenarioSummary(<<>>, guide, call.scenario, <<>>, <<>>, <<>>) ]
    /\ UNCHANGED <<pr, now, cache, openai_client, inv, req>>

NextTools == AssembleTools

----------------------------------------------------------------------------
(***************************************************************************)
(* response_adapter.py: InputAssessor.detect_project_type                  *)
(***************************************************************************)

\* patterns: the keywords of each category
DetectPatterns ==
    [ is_llm_project |->
        { <<"llm">>, <<"gpt">>, <<"chatbot">>, <<"generative">>, <<"language", "model">>,
          <<"openai">>, <<"copilot">>, <<"assistant">>, <<"claude">>, <<"gemini">>,
          <<"rag">>, <<"retrieval">>, <<"prompt">>, <<"chat">> },
      is_agent_project |->
        { <<"agent">>, <<"autonomous">>, <<"multi-agent">>, <<"agentic">>, <<"orchestrat">>,
          <<"tool", "use">>, <<"function", "calling">>, <<"reasoning">> },
      is_ml_project |->
        { <<"machine", "learning">>, <<"ml">>, <<"classification">>, <<"regression">>,
          <<"prediction">>, <<"forecast">>, <<"clustering">>, <<"neural", "network">>,
          <<"deep", "learning">>, <<"training">>, <<"model">> },
      is_vision_project |->
        { <<"vision">>, <<"image">>, <<"video">>, <<"computer", "vision">>, <<"ocr">>,
          <<"object", "detection">>, <<"face">>, <<"recognition">> },
      is_document_project |->
        { <<"document">>, <<"pdf">>, <<"form">>, <<"extract">>, <<"invoice">>,
          <<"receipt">>, <<"contract">> },
      handles_pii |->
        { <<"personal">>, <<"pii">>, <<"customer", "data">>, <<"user", "data">>,
          <<"health">>, <<"financial">>, <<"ssn">>, <<"email">>, <<"phone">>,
          <<"address">>, <<"name">>, <<"hipaa">>, <<"gdpr">> },
      is_high_risk |->
        { <<"healthcare">>, <<"medical">>, <<"diagnosis">>, <<"treatment">>,
          <<"financial">>, <<"credit">>, <<"loan">>, <<"hr">>, <<"hiring">>,
          <<"recruitment">>, <<"law", "enforcement">>, <<"legal">>, <<"education">>,
          <<"grading">>, <<"assessment">> },
      is_customer_facing |->
        { <<"customer">>, <<"user-facing">>, <<"public">>, <<"consumer">>,
          <<"external">>, <<"client">>, <<"end", "user">> } ]

\* str(project_data.get(key, "")).lower() as a part of the f-string: the empty
\* string stands between its two spaces as an empty word
LowerPart(project_data, key) ==
    IF Falsy(Get(project_data, key)) THEN <<"">> ELSE LowerText(Get(project_data, key))

\* combined = f"{description} {tech_type} {ai_models}"
CombinedText(project_data) ==
    LowerPart(project_data, "project_description")
    \o LowerPart(project_data, "technology_type")
    \o LowerPart(project_data, "ai_models")

\* detected[category] = any(kw in combined for kw in keywords)
Detected(project_data, category) ==
    \E kw \in DetectPatterns[category] : TextIn(kw, CombinedText(project_data))

\* The if/elif chain of lines 214-225
PrimaryType(project_data) ==
    IF Detected(project_data, "is_agent_project") THEN <<"AI", "Agent">>
    ELSE IF Detected(project_data, "is_llm_project") THEN <<"LLM/Generative", "AI">>
    ELSE IF Detected(project_data, "is_vision_project") THEN <<"Computer", "Vision">>
    ELSE IF Detected(project_data, "is_document_project") THEN <<"Document", "Intelligence">>
    ELSE IF Detected(project_data, "is_ml_project") THEN <<"Traditional", "ML">>
    ELSE <<"General", "AI">>

detect_project_type(project_data) ==
    [ category \in DOMAIN DetectPatterns |-> Detected(project_data, category) ]
    @@ [ primary_type |-> PrimaryType(project_data) ]

\* The profiles the detection is tried on
DetectProfiles ==
    { [ project_description |-> d, technology_type |-> t, ai_models |-> a, industry |-> ind ] :
        d \in { <<>>, <<"support", "chatbot">>, <<"patient", "diagnosis", "history">>,
                <<"Loan", "approval", "assistant">>, <<"image", "classification">>,
                <<"autonomous", "agent">>, <<"invoice", "extraction">>,
                <<"weather", "forecast">> },
        t \in { <<>>, <<"LLM">>, <<"Traditional", "ML">>, <<"AI", "Agent">> },
        a \in { <<>>, <<"GPT-4">> },
        ind \in { <<>>, <<"Healthcare">>, <<"Financial", "Services">> } }

InitDetect ==
    call \in [ fn : {"detect_project_type"}, pc : {"called"},
               project_data : DetectProfiles, result : { <<>> } ]

DetectProjectType ==
    /\ call.fn = "detect_project_type"
    /\ call.pc = "called"
    /\ call' = [ call EXCEPT !.pc = "returned",
                             !.result = detect_project_type(call.project_data) ]
    /\ UNCHANGED <<pr, now, cache, openai_client, inv, req>>

----------------------------------------------------------------------------
(***************************************************************************)
(* dynamic_resources.py: get_reference_architectures                       *)
(*                                                                         *)
(* The call of get_reference_architectures("computer_vision", "") is kept  *)
(* in `call`; its call of fetch_github_repo_info runs as invocation 1 of   *)
(* the fetcher.                                                            *)
(***************************************************************************)

\* CACHE_TTL_HOURS["reference_architectures"]
TTL_reference_architectures == 24

\* The hours the clock of this part runs over
MaxArchTime == 26

ArchIdle ==
    [ fn |-> "get_reference_architectures", pc |-> "idle", before |-> Absent,
      result |-> <<>>, ret |-> <<>>, built |-> FALSE, repo_calls |-> 0, wrote |-> "no" ]

ArchFile == cache[CachePath(RefArchKey)]

\* Lines 297-303 and 394-395: the result before the repositories are fetched
NewAggregate(t) ==
    [ patterns |-> <<"Image Classification", "Object Detection", "Multimodal">>,
      github_repos |-> <<>>, quick_start_commands |-> <<>>, _generated_at |-> t ]

\* Lines 401-416: a repository that was returned is appended, and the quick
\* start commands are built from the first repository
WithRepo(result, repo_info) ==
    IF repo_info.kind # "value" THEN result
    ELSE [ result EXCEPT !.github_repos = Append(@, repo_info.data),
                         !.quick_start_commands = <<"git clone", "azd init -t">> ]

\* get_reference_architectures is called: cache_key and cache_path
ArchCall ==
    /\ call.pc = "idle"
    /\ AllIdle
    /\ call' = [ArchIdle EXCEPT !.pc = "valid", !.before = ArchFile]
    /\ UNCHANGED <<pr, now, cache, openai_client, inv, req>>

\* if self._is_cache_valid(cache_path, CACHE_TTL_HOURS["reference_architectures"]):
ArchCheckValid ==
    /\ call.pc = "valid"
    /\ call' = [call EXCEPT !.pc = IF IsCacheValid(ArchFile, now, TTL_reference_architectures)
                                   THEN "read" ELSE "build"]
    /\ UNCHANGED <<pr, now, cache, openai_client, inv, req>>

\* An aggregate taken as usable only when it lists a repository.
AggregateWithRepos(cached_data) == Truthy(cached_data) /\ cached_data.github_repos # <<>>

\* `if cached_data:` on the aggregate read from the file
AggregateUsable(cached_data) == Truthy(cached_data)

\* cached_data = self._read_cache(cache_path); if cached_data: return cached_data
ArchRead ==
    /\ call.pc = "read"
    /\ call' = IF AggregateUsable(ReadCache(ArchFile))
               THEN [call EXCEPT !.pc = "done", !.ret = ReadCache(ArchFile)]
               ELSE [call EXCEPT !.pc = "build"]
    /\ UNCHANGED <<pr, now, cache, openai_client, inv, req>>

\* The result is built and fetch_github_repo_info is called for the repository
ArchFetchRepo ==
    /\ call.pc = "build"
    /\ call' = [call EXCEPT !.pc = "repo", !.built = TRUE, !.result = NewAggregate(now),
                            !.repo_calls = @ + 1]
    /\ SetInv(1, [IdleInv EXCEPT !.pc = "valid", !.op = "toolbox",
                                 !.before = cache[CachePath(ToolboxKey)]])
    /\ UNCHANGED <<pr, now, cache, openai_client, req>>

\* The steps of fetch_github_repo_info
ArchRepoStep ==
    /\ call.pc = "repo"
    /\ \/ CheckValid(1)
       \/ ReadFresh(1)
       \/ \E outcome \in FetchOutcomes, v \in Payloads : Fetch(1, outcome, v)
       \/ \E opened \in BOOLEAN : WriteOpen(1, opened)
       \/ \E dumped \in BOOLEAN : WriteDump(1, dumped)
       \/ ReadStale(1)

\* fetch_github_repo_info has returned: if repo_info: append it
ArchCollect ==
    /\ call.pc = "repo"
    /\ inv[1].pc = "done"
    /\ call' = [call EXCEPT !.pc = "write_open", !.result = WithRepo(@, inv[1].ret)]
    /\ SetInv(1, IdleInv)
    /\ UNCHANGED <<pr, now, cache, openai_client, req>>

\* _write_cache(cache_path, result): open(cache_path, 'w'), or the exception
\* logged and dropped; then `return result`
ArchWriteOpen(opened) ==
    /\ call.pc = "write_open"
    /\ IF opened
       THEN /\ cache' = [cache EXCEPT ![CachePath(RefArchKey)] = Truncated]
            /\ call' = [call EXCEPT !.pc = "write_dump"]
       ELSE /\ cache' = cache
            /\ call' = [call EXCEPT !.pc = "done", !.wrote = "failed", !.ret = call.result]
    /\ UNCHANGED <<pr, now, openai_client, inv, req>>

\* json.dump({"timestamp": now, "data": result}, f), or a dump that raises
ArchWriteDump(dumped) ==
    /\ call.pc = "write_dump"
    /\ cache' = [cache EXCEPT ![CachePath(RefArchKey)] =
                    IF dumped THEN Entry(now, call.result) ELSE Partial]
    /\ call' = [call EXCEPT !.pc = "done", !.wrote = IF dumped THEN "ok" ELSE "failed",
                            !.ret = call.result]
    /\ UNCHANGED <<pr, now, openai_client, inv, req>>

\* The caller has the return value.
ArchReturn ==
    /\ call.pc = "done"
    /\ call' = ArchIdle
    /\ UNCHANGED <<pr, now, cache, openai_client, inv, req>>

\* Hours pass between two calls.
ArchTick ==
    /\ call.pc = "idle"
    /\ now < MaxArchTime
    /\ now' = now + 1
    /\ UNCHANGED <<pr, cache, openai_client, inv, req, call>>

NextArch ==
    \/ ArchCall
    \/ ArchCheckValid
    \/ ArchRead
    \/ ArchFetchRepo
    \/ ArchRepoStep
    \/ ArchCollect
    \/ \E opened \in BOOLEAN : ArchWriteOpen(opened)
    \/ \E dumped \in BOOLEAN : ArchWriteDump(dumped)
    \/ ArchReturn
    \/ ArchTick

----------------------------------------------------------------------------
(***************************************************************************)
(* catalog_integration.py: CatalogIntegration                              *)
(***************************************************************************)

RISK_PRIORITIES ==
    [ r \in { "prompt_injection_jailbreak", "harmful_content_generation",
              "pii_data_exposure", "unauthorized_actions",
              "hallucination_grounding", "bias_discrimination",
              "model_reliability", "excessive_agency",
              "lack_of_explainability", "insufficient_monitoring",
              "accessibility_gaps",
              "performance_optimization", "cost_optimization" } |->
        CASE r \in { "prompt_injection_jailbreak", "harmful_content_generation",
                     "pii_data_exposure", "unauthorized_actions" }
                -> "CRITICAL_BLOCKER"
          [] r \in { "hallucination_grounding", "bias_discrimination",
                     "model_reliability", "excessive_agency" }
                -> "HIGHLY_RECOMMENDED"
          [] r \in { "lack_of_explainability", "insufficient_monitoring",
                     "accessibility_gaps" }
                -> "RECOMMENDED"
          [] OTHER -> "NICE_TO_HAVE" ]

TOOL_RISK_MAP ==
    "Azure AI Content Safety" :> <<"harmful_content_generation", "prompt_injection_jailbreak">> @@
    "Prompt Shields" :> <<"prompt_injection_jailbreak">> @@
    "Groundedness Detection" :> <<"hallucination_grounding">> @@
    "Presidio" :> <<"pii_data_exposure">> @@
    "Fairlearn" :> <<"bias_discrimination">> @@
    "InterpretML" :> <<"lack_of_explainability", "bias_discrimination">> @@
    "Microsoft Foundry Control Plane" :> <<"unauthorized_actions", "excessive_agency">> @@
    "Entra Agent ID" :> <<"unauthorized_actions">> @@
    "Azure AI Evaluation SDK" :> <<"model_reliability", "hallucination_grounding">> @@
    "PyRIT" :> <<"prompt_injection_jailbreak", "unauthorized_actions">> @@
    "Azure Monitor" :> <<"insufficient_monitoring">> @@
    "HAX Toolkit" :> <<"accessibility_gaps", "lack_of_explainability">>

priority_order == <<"CRITICAL_BLOCKER", "HIGHLY_RECOMMENDED", "RECOMMENDED", "NICE_TO_HAVE">>

\* priority_order.index(priority)
OrderIndex(priority) == CHOOSE i \in DOMAIN priority_order : priority_order[i] = priority

\* The loop of lines 220-223: the highest priority among the risks of the tool
RECURSIVE HighestPriority(_, _)
HighestPriority(risks, highest_priority) ==
    IF risks = <<>> THEN highest_priority
    ELSE LET risk_priority == DictGet(RISK_PRIORITIES, Head(risks), "RECOMMENDED")
         IN  HighestPriority(Tail(risks),
                             IF OrderIndex(risk_priority) < OrderIndex(highest_priority)
                             THEN risk_priority ELSE highest_priority)

\* Lines 226-230: the production rule
ToolProduction(p, deployment_stage) ==
    IF StageLower(deployment_stage) # "production" THEN p
    ELSE IF p = "HIGHLY_RECOMMENDED" THEN "CRITICAL_BLOCKER"
    ELSE IF p = "RECOMMENDED" THEN "HIGHLY_RECOMMENDED"
    ELSE p

\* Lines 232-234: the high-risk rule
ToolHighRisk(p, is_high_risk) ==
    IF is_high_risk /\ p = "RECOMMENDED" THEN "HIGHLY_RECOMMENDED" ELSE p

\* The priority a tool starts from: no escalation for a tool without risks
ToolBasePriority(tool_name) ==
    HighestPriority(DictGet(TOOL_RISK_MAP, tool_name, <<>>), "NICE_TO_HAVE")

_get_tool_priority(tool_name, is_high_risk, deployment_stage) ==
    IF DictGet(TOOL_RISK_MAP, tool_name, <<>>) = <<>> THEN "RECOMMENDED"
    ELSE ToolHighRisk(ToolProduction(ToolBasePriority(tool_name), deployment_stage),
                      is_high_risk)

\* One tool and one risk type under one context
InitToolPriority ==
    call \in [ fn : {"_get_tool_priority"}, pc : {"called"},
               tool_name : DOMAIN TOOL_RISK_MAP \cup {"Azure Key Vault"},
               risk_type : RiskTypes, is_high_risk : BOOLEAN,
               deployment_stage : DeploymentStages,
               result : {"none"}, mapper_result : {"none"} ]

\* _get_tool_priority on the tool, and get_priority on the risk type with
\* handles_pii false
GetToolPriority ==
    /\ call.fn = "_get_tool_priority"
    /\ call.pc = "called"
    /\ call' = [ call EXCEPT
                   !.pc = "returned",
                   !.result = _get_tool_priority(call.tool_name, call.is_high_risk,
                                                 call.deployment_stage),
                   !.mapper_result =
                       get_priority(call.risk_type,
                                    [is_high_risk |-> call.is_high_risk, handles_pii |-> FALSE],
                                    call.deployment_stage) ]
    /\ UNCHANGED <<pr, now, cache, openai_client, inv, req>>

\* str.lower() on the tool names of this module
ToolLowerTable ==
    "Azure AI Content Safety" :> "azure ai content safety" @@
    "Prompt Shields" :> "prompt shields" @@
    "Groundedness Detection" :> "groundedness detection" @@
    "Azure AI Evaluation SDK" :> "azure ai evaluation sdk" @@
    "Microsoft Foundry Control Plane" :> "microsoft foundry control plane" @@
    "Entra Agent ID" :> "entra agent id" @@
    "PyRIT" :> "pyrit" @@
    "Presidio" :> "presidio" @@
    "Azure Key Vault" :> "azure key vault" @@
    "Azure Confidential Computing" :> "azure confidential computing" @@
    "Azure Monitor" :> "azure monitor" @@
    "Fairlearn" :> "fairlearn" @@
    "presidio" :> "presidio" @@
    "fairlearn" :> "fairlearn"

ToolLower(name) == ToolLowerTable[name]

\* KnowledgeLoader.get_tool_info over the names of the tools in the catalog,
\* in catalog order: the first tool whose lower-cased name is the lower-cased
\* tool_name, None (<<>>) when there is none
RECURSIVE get_tool_info(_, _)
get_tool_info(catalog_tools, tool_name) ==
    IF catalog_tools = <<>> THEN <<>>
    ELSE IF ToolLower(Head(catalog_tools)) = ToolLower(tool_name)
         THEN [ name |-> Head(catalog_tools) ]
         ELSE get_tool_info(Tail(catalog_tools), tool_name)

\* {**tool_info, "priority": priority, "required": required}
ToolEntry(tool_info, priority, required) ==
    [ name |-> tool_info.name, priority |-> priority, required |-> required ]

\* Lines 100-108: the required tools of the use case
RECURSIVE AddRequired(_, _, _, _)
AddRequired(tools, names, catalog_tools, is_high_risk) ==
    IF names = <<>> THEN tools
    ELSE LET tool_info == get_tool_info(catalog_tools, Head(names))
             added == IF tool_info = <<>> THEN tools
                      ELSE Append(tools,
                                  ToolEntry(tool_info,
                                            _get_tool_priority(Head(names), is_high_risk,
                                                               "Production"),
                                            TRUE))
         IN  AddRequired(added, Tail(names), catalog_tools, is_high_risk)

\* The loops of lines 110-117 and of _add_llm_tools, _add_agent_tools and
\* _add_pii_tools over pairs <<tool_name, priority>>
RECURSIVE AddListed(_, _, _)
AddListed(tools, pairs, catalog_tools) ==
    IF pairs = <<>> THEN tools
    ELSE LET tool_info == get_tool_info(catalog_tools, Head(pairs)[1])
             added == IF tool_info = <<>> THEN tools
                      ELSE Append(tools,
                                  ToolEntry(tool_info, Head(pairs)[2],
                                            Head(pairs)[2] = "CRITICAL_BLOCKER"))
         IN  AddListed(added, Tail(pairs), catalog_tools)

\* Lines 110-117: a recommended evaluator is RECOMMENDED and not required
AddEvaluators(tools, names, catalog_tools) ==
    LET added == AddListed(tools, [i \in DOMAIN names |-> <<names[i], "RECOMMENDED">>],
                           catalog_tools)
    IN  [i \in DOMAIN added |->
            IF i \in DOMAIN tools THEN added[i] ELSE [ added[i] EXCEPT !.required = FALSE ]]

llm_required ==
    << <<"Azure AI Content Safety", "CRITICAL_BLOCKER">>,
       <<"Prompt Shields", "CRITICAL_BLOCKER">>,
       <<"Groundedness Detection", "HIGHLY_RECOMMENDED">>,
       <<"Azure AI Evaluation SDK", "HIGHLY_RECOMMENDED">> >>

agent_required ==
    << <<"Microsoft Foundry Control Plane", "CRITICAL_BLOCKER">>,
       <<"Entra Agent ID", "CRITICAL_BLOCKER">>,
       <<"PyRIT", "HIGHLY_RECOMMENDED">>,
       <<"Azure AI Evaluation SDK", "HIGHLY_RECOMMENDED">> >>

pii_required ==
    << <<"Presidio", "CRITICAL_BLOCKER">>,
       <<"Azure Key Vault", "HIGHLY_RECOMMENDED">>,
       <<"Azure Confidential Computing", "RECOMMENDED">> >>

\* Lines 96-128: the list `tools` before it is sorted
CollectTools(uc_rec, catalog_tools, is_llm, is_agent, handles_pii, is_high_risk) ==
    LET from_uc == IF Falsy(uc_rec) THEN <<>>
                   ELSE AddEvaluators(AddRequired(<<>>, Get(uc_rec, "required_tools"),
                                                  catalog_tools, is_high_risk),
                                      Get(uc_rec, "recommended_evaluators"), catalog_tools)
        with_llm == IF is_llm THEN AddListed(from_uc, llm_required, catalog_tools)
                    ELSE from_uc
        with_agent == IF is_agent THEN AddListed(with_llm, agent_required, catalog_tools)
                      ELSE with_llm
    IN  IF handles_pii THEN AddListed(with_agent, pii_required, catalog_tools)
        ELSE with_agent

\* The tools of one priority, in the order they have in the list
OfPriority(tools, priority) == SelectSeq(tools, LAMBDA t : t.priority = priority)

\* The list left in the order of its appends
SortKept(tools) == tools

\* tools.sort(key=priority_order.index(priority)): list.sort is stable
SortTools(tools) ==
    OfPriority(tools, priority_order[1]) \o OfPriority(tools, priority_order[2])
        \o OfPriority(tools, priority_order[3]) \o OfPriority(tools, priority_order[4])

\* Lines 135-141: the first tool of each name
RECURSIVE UniqueTools(_, _, _)
UniqueTools(tools, seen, unique_tools) ==
    IF tools = <<>> THEN unique_tools
    ELSE IF Head(tools).name \in seen
         THEN UniqueTools(Tail(tools), seen, unique_tools)
         ELSE UniqueTools(Tail(tools), seen \cup {Head(tools).name},
                          Append(unique_tools, Head(tools)))

FallbackTool(name, priority) ==
    [ name |-> name, priority |-> priority, required |-> priority = "CRITICAL_BLOCKER" ]

_get_fallback_tools(is_llm, is_agent, handles_pii, is_high_risk) ==
    << FallbackTool("Azure Machine Learning Responsible AI Dashboard", "HIGHLY_RECOMMENDED") >>
    \o (IF is_llm
        THEN << FallbackTool("Azure AI Content Safety", "CRITICAL_BLOCKER"),
                FallbackTool("Prompt Shields", "CRITICAL_BLOCKER"),
                FallbackTool("Groundedness Detection", "HIGHLY_RECOMMENDED") >>
        ELSE <<>>)
    \o (IF is_agent
        THEN << FallbackTool("Microsoft Foundry Control Plane", "CRITICAL_BLOCKER"),
                FallbackTool("Entra Agent ID", "CRITICAL_BLOCKER") >>
        ELSE <<>>)
    \o (IF handles_pii THEN << FallbackTool("Presidio", "CRITICAL_BLOCKER") >> ELSE <<>>)
    \o (IF is_high_risk
        THEN << FallbackTool("Fairlearn", "CRITICAL_BLOCKER"),
                FallbackTool("InterpretML", "HIGHLY_RECOMMENDED") >>
        ELSE <<>>)

\* get_use_case_recommendation(project_type) as the catalog may give it
UseCaseRecs ==
    { <<>> } \cup
    [ required_tools : { <<>>, <<"Azure AI Content Safety", "Azure Monitor">>,
                         <<"presidio", "Azure AI Evaluation SDK">> },
      recommended_evaluators : { <<>>, <<"Azure AI Evaluation SDK">>,
                                 <<"Presidio", "fairlearn", "Prompt Shields">> } ]

\* The names of the tools of rai_tools_catalog.json, in catalog order
ToolCatalogs ==
    { <<>>,
      <<"Azure AI Content Safety", "Prompt Shields", "Groundedness Detection",
        "Azure AI Evaluation SDK", "Microsoft Foundry Control Plane", "Entra Agent ID",
        "PyRIT", "Presidio", "Azure Key Vault", "Azure Confidential Computing",
        "Azure Monitor", "Fairlearn">>,
      <<"Azure AI Content Safety", "Azure AI Evaluation SDK", "Presidio", "PyRIT">> }

InitGetTools ==
    call \in [ fn : {"get_tools_for_project_type"}, pc : {"called"},
               KNOWLEDGE_AVAILABLE : BOOLEAN, catalog_tools : ToolCatalogs,
               uc_rec : UseCaseRecs,
               is_llm : BOOLEAN, is_agent : BOOLEAN, handles_pii : BOOLEAN,
               is_high_risk : BOOLEAN,
               tools : { <<>> }, result : { <<>> } ]

\* get_tools_for_project_type: the fallback list without a loader, the
\* sorted list without duplicates otherwise
GetToolsForProjectType ==
    /\ call.fn = "get_tools_for_project_type"
    /\ call.pc = "called"
    /\ LET tools == CollectTools(call.uc_rec, call.catalog_tools, call.is_llm,
                                 call.is_agent, call.handles_pii, call.is_high_risk)
       IN  call' = IF ~call.KNOWLEDGE_AVAILABLE
                   THEN [ call EXCEPT
                            !.pc = "returned",
                            !.result = _get_fallback_tools(call.is_llm, call.is_agent,
                                                           call.handles_pii,
                                                           call.is_high_risk) ]
                   ELSE [ call EXCEPT
                            !.pc = "returned",
                            !.tools = tools,
                            !.result = UniqueTools(SortTools(tools), {}, <<>>) ]
    /\ UNCHANGED <<pr, now, cache, openai_client, inv, req>>

----------------------------------------------------------------------------
(***************************************************************************)
(* knowledge_loader.py: the loader under the request threads of the server *)
(***************************************************************************)

MaxReads == 2

LoaderThreads == {1, 2}

\* The files behind the cached properties of KnowledgeLoader
PropertyFiles == {"rai_tools_catalog.json", "code_examples.json"}

\* The file app.py reads with knowledge_loader._load_json itself
ArchitecturesFile == "reference_architectures.json"

KnowledgeFiles == PropertyFiles \cup {ArchitecturesFile}

ThreadIdle == [ pc |-> "idle", filename |-> "", data |-> <<>> ]

\* KnowledgeLoader() of get_knowledge_loader: nothing cached, nothing read
InitLoader ==
    call \in [ fn : {"KnowledgeLoader"},
               disk : [KnowledgeFiles -> CatalogFiles],
               _cache : { [f \in PropertyFiles |-> <<FALSE, <<>>>>] },
               reads : { [f \in KnowledgeFiles |-> 0] },
               thread : { [t \in LoaderThreads |-> ThreadIdle] } ]

\* Line 62: `filename not in self._cache`; a cached entry is returned by
\* line 64 without a read
LoaderAccess(t, filename) ==
    /\ call.fn = "KnowledgeLoader"
    /\ call.thread[t].pc = "idle"
    /\ call' = [ call EXCEPT
                   !.thread[t] =
                       IF call._cache[filename][1]
                       THEN [ pc |-> "idle", filename |-> filename,
                              data |-> call._cache[filename][2] ]
                       ELSE [ pc |-> "loading", filename |-> filename, data |-> <<>> ] ]
    /\ UNCHANGED <<pr, now, cache, openai_client, inv, req>>

\* _load_json called from line 63: the file is read
LoaderRead(t) ==
    /\ call.fn = "KnowledgeLoader"
    /\ call.thread[t].pc = "loading"
    /\ call.reads[call.thread[t].filename] < MaxReads
    /\ call' = [ call EXCEPT
                   !.reads[call.thread[t].filename] = @ + 1,
                   !.thread[t].pc = "loaded",
                   !.thread[t].data = _load_json(call.disk[call.thread[t].filename]) ]
    /\ UNCHANGED <<pr, now, cache, openai_client, inv, req>>

\* The assignment of line 63 and the return of line 64
LoaderStore(t) ==
    /\ call.fn = "KnowledgeLoader"
    /\ call.thread[t].pc = "loaded"
    /\ call' = [ call EXCEPT
                   !._cache[call.thread[t].filename] = <<TRUE, call.thread[t].data>>,
                   !.thread[t].pc = "idle" ]
    /\ UNCHANGED <<pr, now, cache, openai_client, inv, req>>

\* reload_all: the cache is cleared; the reads are counted from here
LoaderReloadAll(t) ==
    /\ call.fn = "KnowledgeLoader"
    /\ call.thread[t].pc = "idle"
    /\ call' = [ call EXCEPT
                   !._cache = [f \in PropertyFiles |-> <<FALSE, <<>>>>],
                   !.reads = [f \in KnowledgeFiles |-> 0],
                   !.thread[t] = ThreadIdle ]
    /\ UNCHANGED <<pr, now, cache, openai_client, inv, req>>

\* app.py lines 2044 and 2105: knowledge_loader._load_json on the
\* architectures file, outside _get_cached_or_load
LoaderLoadArchitectures(t) ==
    /\ call.fn = "KnowledgeLoader"
    /\ call.thread[t].pc = "idle"
    /\ call.reads[ArchitecturesFile] < MaxReads
    /\ call' = [ call EXCEPT
                   !.reads[ArchitecturesFile] = @ + 1,
                   !.thread[t] = [ pc |-> "idle", filename |-> ArchitecturesFile,
                                   data |-> _load_json(call.disk[ArchitecturesFile]) ] ]
    /\ UNCHANGED <<pr, now, cache, openai_client, inv, req>>

NextLoader ==
    \E t \in LoaderThreads :
        \/ \E filename \in PropertyFiles : LoaderAccess(t, filename)
        \/ LoaderRead(t)
        \/ LoaderStore(t)
        \/ LoaderReloadAll(t)
        \/ LoaderLoadArchitectures(t)

----------------------------------------------------------------------------
(***************************************************************************)
(* Specifications                                                          *)
(***************************************************************************)

\* No helper call is pending.
CallIdle == [fn |-> "none"]

InitPrio == InitPr /\ CacheIdle /\ req = ReqIdle /\ call = CallIdle

NextPrio == GetPriority

SpecPrio == InitPrio /\ [][NextPrio]_vars

InitCache == InitFetcher /\ pr = PrIdle /\ req = ReqIdle /\ call = CallIdle

SpecCache == InitCache /\ [][NextCache]_vars

SpecConc == InitCache /\ [][NextConc]_vars

SpecRefresh == InitCache /\ [][NextRefresh]_vars

InitReq == InitRequest /\ pr = PrIdle /\ CacheIdle /\ call = CallIdle

SpecReq == InitReq /\ [][NextReq]_vars

InitScen == InitSelect /\ pr = PrIdle /\ CacheIdle /\ req = ReqIdle

SpecScen == InitScen /\ [][NextSelect]_vars

InitScoreCall == InitScore /\ pr = PrIdle /\ CacheIdle /\ req = ReqIdle

SpecScore == InitScoreCall /\ [][NextScore]_vars

InitArch == CacheIdle /\ pr = PrIdle /\ req = ReqIdle /\ call = ArchIdle

SpecArch == InitArch /\ [][NextArch]_vars

InitToolPrio == InitToolPriority /\ pr = PrIdle /\ CacheIdle /\ req = ReqIdle

SpecToolPrio == InitToolPrio /\ [][GetToolPriority]_vars

InitToolList == InitGetTools /\ pr = PrIdle /\ CacheIdle /\ req = ReqIdle

SpecToolList == InitToolList /\ [][GetToolsForProjectType]_vars

InitLoad == InitLoader /\ pr = PrIdle /\ CacheIdle /\ req = ReqIdle

SpecLoader == InitLoad /\ [][NextLoader]_vars

InitAss == InitAssess /\ pr = PrIdle /\ CacheIdle /\ req = ReqIdle

SpecAssess == InitAss /\ [][NextAssess]_vars

InitRiskCall == InitRisk /\ pr = PrIdle /\ CacheIdle /\ req = ReqIdle

SpecRisk == InitRiskCall /\ [][NextRisk]_vars

InitBoot == InitModule /\ pr = PrIdle /\ CacheIdle

SpecBoot == InitBoot /\ [][NextBoot]_vars

InitToolCall == InitTools /\ pr = PrIdle /\ CacheIdle /\ req = ReqIdle

SpecTools == InitToolCall /\ [][NextTools]_vars

InitDet == InitDetect /\ pr = PrIdle /\ CacheIdle /\ req = ReqIdle

SpecDetect == InitDet /\ [][DetectProjectType]_vars

----------------------------------------------------------------------------
(***************************************************************************)
(* Claims about the file cache of DynamicResourceFetcher                   *)
(***************************************************************************)

Done(p, op) == inv[p].pc = "done" /\ inv[p].op = op

\* The payload of an entry, as the caller gets it with "_source" set to src.
Served(file, src) == RetValue([payload |-> file.data.payload, source |-> src])

\* C2: when fetch_github_repo_info finds no fresh entry and its fetch fails
\* (HTTP error, timeout or any exception), it returns the persisted entry's
\* payload marked stale_cache if an entry exists, even an expired one, and
\* None if there is none; the failure never reaches the caller as an exception.
C2_StaleOnFailure ==
    \A p \in Procs :
        (Done(p, "github") /\ inv[p].fetch = "failed") =>
            /\ inv[p].ret.kind # "exception"
            /\ inv[p].before.kind = "entry" =>
                   inv[p].ret = Served(inv[p].before, "stale_cache")
            /\ inv[p].before.kind # "entry" => inv[p].ret = RetNone

\* An expired entry was served stale after a failed fetch.
C2_Witness ==
    \E p \in Procs :
        /\ Done(p, "github") /\ inv[p].fetch = "failed"
        /\ inv[p].before.kind = "entry"
        /\ now - inv[p].before.timestamp > TTL_github_repos
        /\ inv[p].ret.kind = "value" /\ inv[p].ret.data.source = "stale_cache"

\* C4: a read of a cache file never meets the file while a writer has it
\* truncated or half written, so an invocation whose fetch failed while an
\* entry existed when it was called is never answered None.
C4_ReadsSeeWholeEntries ==
    \A p \in Procs :
        /\ inv[p].saw \notin {"truncated", "garbled"}
        /\ (Done(p, "github") /\ inv[p].fetch = "failed"
              /\ inv[p].before.kind = "entry" /\ inv[p].saw # "partial")
           => inv[p].ret.kind = "value"

\* C7: when the entry of a query is expired and the search fails, or no
\* client is configured, search_with_bing_grounding returns the persisted
\* entry marked stale.
C7_BingStaleOnFailure ==
    \A p \in Procs :
        (Done(p, "bing")
           /\ inv[p].before.kind = "entry"
           /\ now - inv[p].before.timestamp >= TTL_web_search
           /\ (inv[p].fetch = "failed" \/ ~openai_client))
        => inv[p].ret = Served(inv[p].before, "stale_cache")

\* An entry younger than the TTL is returned and no fetch is attempted; from
\* age TTL on the call attempts the fetch.
FreshNoFetchExpiredFetch(p) ==
    /\ (inv[p].before.kind = "entry"
          /\ now - inv[p].before.timestamp < TTL_github_repos)
       => /\ inv[p].fetch = "no"
          /\ inv[p].ret = Served(inv[p].before, "cache")
    /\ (inv[p].before.kind = "entry"
          /\ now - inv[p].before.timestamp >= TTL_github_repos)
       => inv[p].fetch # "no"

\* The persisted entry holds the fetched payload under the time of the write,
\* so it is valid for the TTL window that follows.
Replaced(p) ==
    /\ cache[CachePath(GithubKey)] = Entry(now, inv[p].result)
    /\ \A t \in now..(now + TTL_github_repos - 1) :
          IsCacheValid(cache[CachePath(GithubKey)], t, TTL_github_repos)

C25_FailedFetchLeavesEntry ==
    \A p \in Procs :
        (Done(p, "github") /\ inv[p].fetch = "failed") =>
            /\ File(p) = inv[p].before
            /\ \A t \in now..(MaxTime + 1) : ~IsCacheValid(File(p), t, TTL_github_repos)
            /\ Parses(File(p)) =>
                   /\ now - File(p).timestamp >= TTL_github_repos
                   /\ File(p).data.source = "github_api"
                   /\ inv[p].ret.kind = "value"
                   /\ inv[p].ret.data.source = "stale_cache"

\* An expired entry was served with the stale marker and is still in the file
\* as it was written, under its old timestamp.
C25_Witness ==
    \E p \in Procs :
        /\ Done(p, "github") /\ inv[p].fetch = "failed"
        /\ inv[p].before.kind = "entry"
        /\ File(p) = inv[p].before
        /\ File(p).data.source = "github_api"
        /\ File(p).timestamp < now
        /\ inv[p].ret = Served(File(p), "stale_cache")

\* C26: in a sequence of fetch_github_repo_info calls for one key, one at a
\* time, with no clear_cache and with the cache writes succeeding, a call that
\* returns a payload leaves an entry in the file, and a call that finds an
\* entry returns a payload, never None, whatever its fetch does: once a call
\* has returned a payload every later call returns one.
C26_PayloadOncePayloadAlways ==
    \A p \in Procs :
        (Done(p, "github") /\ inv[p].wrote # "failed") =>
            /\ inv[p].ret.kind = "value" =>
                   Parses(File(p)) /\ Truthy(File(p).data)
            /\ Parses(inv[p].before) => inv[p].ret.kind = "value"

\* After an entry was persisted, a later call whose fetch failed returned its
\* payload.
C26_Witness ==
    \E p \in Procs :
        /\ Done(p, "github")
        /\ Parses(inv[p].before)
        /\ now - inv[p].before.timestamp >= TTL_github_repos
        /\ inv[p].fetch = "failed"
        /\ inv[p].ret.kind = "value"
        /\ inv[p].ret.data.payload = inv[p].before.data.payload

----------------------------------------------------------------------------
(***************************************************************************)
(* Claims about PriorityMapper.get_priority                                *)
(***************************************************************************)

\* The context of pr with one factor turned off.
WithoutHighRisk(c) == [c EXCEPT !.is_high_risk = FALSE]
WithoutPii(c) == [c EXCEPT !.handles_pii = FALSE]

\* C9: no escalation rule of get_priority moves the priority to a less severe
\* tier than it had before the rule, and turning on any one context factor
\* (is_high_risk, production stage, handles_pii) with the others fixed never
\* gives a less severe result.
C9_NeverLessSevere ==
    pr.phase = "done" =>
        /\ \A i \in 1..3 : Severity(pr.steps_a[i + 1]) >= Severity(pr.steps_a[i])
        /\ pr.chars.is_high_risk =>
              Severity(pr.steps_a[4]) >=
                Severity(get_priority(pr.risk_a, WithoutHighRisk(pr.chars), pr.stage))
        /\ pr.chars.handles_pii =>
              Severity(pr.steps_a[4]) >=
                Severity(get_priority(pr.risk_a, WithoutPii(pr.chars), pr.stage))
        /\ StageLower(pr.stage) = "production" =>
              Severity(pr.steps_a[4]) >=
                Severity(get_priority(pr.risk_a, pr.chars, "Development"))

\* C10: get_priority is monotonic in the base tier: when the base priority of
\* risk type a is at least as severe as that of risk type b, the result for a
\* is at least as severe as the result for b under the same characteristics
\* and deployment stage.
C10_MonotonicInBase ==
    (pr.phase = "done"
       /\ Severity(BasePriority(pr.risk_a)) >= Severity(BasePriority(pr.risk_b)))
    => Severity(pr.steps_a[4]) >= Severity(pr.result_b)

----------------------------------------------------------------------------
(***************************************************************************)
(* Claims about submit_review and augment_with_dynamic_resources           *)
(***************************************************************************)

\* The request has been answered.
Answered == req.pc = "done"

\* The request went through augment_with_dynamic_resources.
Augmented == Answered /\ req.raised # "not_called"

OutputKeys ==
    {"risk_scores", "reference_architecture", "quick_start_guide",
     "recommendations_by_pillar", "next_steps"}

\* C1: every submission with a non-empty project_name is answered with a
\* document that holds a non-empty value under each of risk_scores,
\* reference_architecture, quick_start_guide, recommendations_by_pillar and
\* next_steps, whatever the generation call and the lookups did.
C1_AllOutputKeysPresent ==
    (Answered /\ "project_name" \in DOMAIN req.project_data /\ req.project_data.project_name # "")
        => \A k \in OutputKeys : ~Falsy(Get(req.response, k))

\* C3: one request issues at most one generation call; after a call that
\* raised, timed out or gave unparseable text the service is not called again.
C3_AtMostOneGenerationCall == req.gen_calls <= 1

\* The keys under a dict of the document whose values are dicts themselves.
DictKeysUnder(parent) ==
    CASE parent = "" ->
            {"risk_scores", "reference_architecture", "quick_start_guide", "quick_start",
             "recommendations_by_pillar", "_adaptive_metadata"}
      [] parent = "risk_scores" -> {"principle_scores", "critical_factors", "qualitative_assessment"}
      [] parent = "recommendation" -> {"tool"}
      [] OTHER -> {}

\* Every key path with a non-empty value in `gen` holds the same value in `out`.
RECURSIVE Preserved(_, _, _)
Preserved(gen, out, parent) ==
    \A k \in DOMAIN gen :
        gen[k] # <<>> =>
            /\ k \in DOMAIN out
            /\ IF parent = "recommendations_by_pillar" THEN Preserved(gen[k], out[k], "pillar")
               ELSE IF parent = "pillar" /\ k = "recommendations"
                    THEN /\ Len(out[k]) = Len(gen[k])
                         /\ \A i \in 1..Len(gen[k]) : Preserved(gen[k][i], out[k][i], "recommendation")
               ELSE IF k \in DictKeysUnder(parent) THEN Preserved(gen[k], out[k], k)
               ELSE out[k] = gen[k]

C6_FailureIsolation ==
    (Augmented /\ req.raised # "none")
        => /\ ~Falsy(Get(req.ai_response, "risk_scores"))
           /\ ~Falsy(Get(req.ai_response, "quick_start"))

\* C23: when dynamic resources are available and the generated response has
\* risk_scores with overall_score 70 and no principle_scores, the augmented
\* document keeps overall_score 70 and its principle_scores hold a score for
\* each of the six principles.
C23_PrincipleScoresFilled ==
    ( /\ req.pc = "done"
      /\ req.raised # "not_called"
      /\ req.globals.DYNAMIC_RESOURCES_AVAILABLE
      /\ Get(req.generated, "risk_scores") = RiskPartial )
        => /\ Get(Get(req.ai_response, "risk_scores"), "overall_score") = <<70>>
           /\ DOMAIN Get(Get(req.ai_response, "risk_scores"), "principle_scores") =
                  { "reliability_safety", "privacy_security", "fairness",
                    "transparency", "inclusiveness", "accountability" }

----------------------------------------------------------------------------
(***************************************************************************)
(* Claims about _select_use_case_scenario                                  *)
(***************************************************************************)

Selected == call.fn = "_select_use_case_scenario" /\ call.pc = "returned"

\* The scores of the catalog's scenarios for the profile of the call
SelScenarios == CatalogScenarios(call.knowledge)

SelScores ==
    ScenarioScores(call.project_data, SelScenarios, CHOOSE order \in Orders(Candidates) : TRUE)

SelTop == CHOOSE m \in Range(SelScores) : \A i \in DOMAIN SelScores : SelScores[i] <= m

\* C11: _select_use_case_scenario returns None when the best score is below
\* 6, and otherwise the scenario of highest score that comes first in the
\* catalog, whatever the order in which the candidate set is iterated.
C11_FirstBestOrNone ==
    Selected =>
        IF SelScenarios = <<>> THEN call.result = <<>>
        ELSE IF SelTop < 6 THEN call.result = <<>>
        ELSE \E i \in DOMAIN SelScores :
                /\ SelScores[i] = SelTop
                /\ \A j \in 1..(i - 1) : SelScores[j] < SelTop
                /\ call.result = SelScenarios[i]

\* Two scenarios tie at the highest score, which is at least 6, and the
\* earlier one is returned.
C11_Witness ==
    /\ Selected
    /\ \E i, j \in DOMAIN SelScores :
          /\ i < j
          /\ SelScores[i] = SelTop /\ SelScores[j] = SelTop /\ SelTop >= 6
          /\ \A k \in 1..(i - 1) : SelScores[k] < SelTop
          /\ call.result = SelScenarios[i]

\* A call whose best score is positive and below 6 returns None.
C11_WitnessBelow == Selected /\ SelScenarios # <<>> /\ SelTop \in 1..5 /\ call.result = <<>>

\* The scenario of the call, its tokens, and the candidates that are not empty
ScoredScenario == CatalogScenarios(call.knowledge)[1]

ScoredTokens ==
    _tokenize_for_matching(<< ScoredScenario.title, ScoredScenario.description,
                              JoinTexts(ScoredScenario.industry_relevance),
                              ScoredScenario.risk_profile >>)

TypesGiven == { c \in Candidates : ~Falsy(c) }

\* The types that are mapped to the scenario, and those among its tokens
TypesMapped ==
    { c \in TypesGiven : ScoredScenario.id \in Range(DictGet(PROJECT_TYPE_HINTS, c, <<>>)) }

TypesAmongTokens == { c \in TypesGiven : Len(c) = 1 /\ c[1] \in ScoredTokens }

\* C24: the score of a scenario is the size of the token intersection, plus
\* 12 for each keyword hint found in the text, plus 10 for a matching
\* industry, plus 14 if a type is mapped to the scenario and 4 if a type is
\* among the scenario's tokens, each of the two added at most once.
C24_TypeBonusAtMostOnce ==
    (call.fn = "_select_use_case_scenario" /\ call.pc = "returned") =>
        call.scores[1] =
            ScenarioScores(call.project_data, <<ScoredScenario>>, <<>>)[1]
            + (IF TypesMapped # {} THEN 14 ELSE 0)
            + (IF TypesAmongTokens # {} THEN 4 ELSE 0)

----------------------------------------------------------------------------
(***************************************************************************)
(* Claims about InputAssessor.assess_input                                 *)
(***************************************************************************)

Assessed == call.fn = "assess_input" /\ call.pc = "returned"

\* The tier the thresholds 25, 50 and 75 give a score
TierOf(score) ==
    IF score <= 24 THEN "minimal"
    ELSE IF score <= 49 THEN "basic"
    ELSE IF score <= 74 THEN "standard"
    ELSE "comprehensive"

TierRank(depth) ==
    CASE depth = "minimal" -> 0 [] depth = "basic" -> 1
      [] depth = "standard" -> 2 [] OTHER -> 3

\* C12: the depth assess_input returns is the tier of the completeness
\* score alone (Minimal 0..24, Basic 25..49, Standard 50..74, Comprehensive
\* 75..100), and it does not decrease when the score increases.
C12_DepthByScore ==
    Assessed =>
        /\ call.result.response_depth = TierOf(call.result.completeness_score)
        /\ call.result_with.response_depth = TierOf(call.result_with.completeness_score)
        /\ call.result.completeness_score <= call.result_with.completeness_score
              => TierRank(call.result.response_depth) <= TierRank(call.result_with.response_depth)

\* A profile whose score is exactly 50 gets the depth Standard.
C12_Witness ==
    /\ Assessed
    /\ call.result_with.completeness_score = 50
    /\ call.result_with.response_depth = "standard"

\* Profiles whose scores are exactly 25 and 75 get Basic and Comprehensive.
C12_WitnessBasic ==
    Assessed /\ call.result.completeness_score = 25 /\ call.result.response_depth = "basic"

C12_WitnessComprehensive ==
    /\ Assessed
    /\ call.result.completeness_score = 75
    /\ call.result.response_depth = "comprehensive"

\* The field of the call was missing and the new value makes it provided.
NewlyProvided ==
    /\ call.field \notin Range(call.result.provided_fields)
    /\ call.field \in Range(call.result_with.provided_fields)

\* C13: the completeness score lies in 0..100, and a field that goes from
\* missing to provided, the rest of the profile unchanged, does not lower it.
C13_ScoreBoundedMonotone ==
    Assessed =>
        /\ call.result.completeness_score \in 0..100
        /\ call.result_with.completeness_score \in 0..100
        /\ NewlyProvided =>
              call.result_with.completeness_score >= call.result.completeness_score

\* The last missing field went from missing to provided and the score
\* rose to 100.
C13_Witness ==
    /\ Assessed
    /\ NewlyProvided
    /\ call.result_with.completeness_score = 100
    /\ call.result.completeness_score < 100

\* Provided as the specification words it: the trimmed value is non-empty
\* and is not a sentinel, compared without regard to case.
ProvidedAfterTrimming(value) ==
    LET trimmed == Strip(value)
    IN  trimmed # <<>> /\ LowerText(trimmed) \notin Sentinels

\* C19: a field counts as provided if and only if its value, trimmed of
\* surrounding white space, is non-empty and is not one of the sentinels
\* compared case-insensitively.
C19_ProvidedIffTrimmedNonSentinel ==
    Assessed =>
        (call.field \in Range(call.result_with.provided_fields)
            <=> ProvidedAfterTrimming(call.value))

\* The documented Standard Input: exactly the first five fields are given.
StandardInput ==
    [ f \in { "project_name", "project_description", "deployment_stage",
              "technology_type", "industry" } |-> <<"text">> ]

\* C20: the profile that provides exactly project_name, project_description,
\* deployment_stage, technology_type and industry gets a completeness score
\* of at least 50 and the depth Standard.
C20_StandardInputIsStandard ==
    (Assessed /\ call.project_data = StandardInput) =>
        /\ call.result.completeness_score >= 50
        /\ call.result.response_depth = "standard"

----------------------------------------------------------------------------
(***************************************************************************)
(* Claims about calculate_basic_risk_scores                                *)
(***************************************************************************)

Estimated == call.fn = "calculate_basic_risk_scores" /\ call.pc = "returned"

\* C14: calculate_basic_risk_scores returns an overall_score in 0..95 and a
\* risk_level that is High exactly from 85 up, Medium exactly from 70 to 84
\* and Low below 70.
C14_ScoreBoundedLevelConsistent ==
    Estimated =>
        LET overall == call.result.overall_score[1]
            level == call.result.risk_level[1]
        IN  /\ overall \in 0..95
            /\ level = "High" <=> overall >= 85
            /\ level = "Medium" <=> (overall >= 70 /\ overall < 85)
            /\ level = "Low" <=> overall < 70

\* A profile whose bumps add up to more than 95 is reported as 95, High.
C14_Witness ==
    /\ Estimated
    /\ BaseScore + SumAmounts(RiskBumps(call.project_data)) > 95
    /\ call.result.overall_score = <<95>>
    /\ call.result.risk_level = <<"High">>

\* The three levels occur, High also at exactly 85.
C14_WitnessBoundary ==
    Estimated /\ call.result.overall_score = <<85>> /\ call.result.risk_level = <<"High">>

C14_WitnessMedium == Estimated /\ call.result.risk_level = <<"Medium">>

C14_WitnessLow == Estimated /\ call.result.risk_level = <<"Low">>

\* C22: for a profile whose description holds a health keyword, whose stage
\* is Production and which has no other risk factor,
\* calculate_basic_risk_scores returns risk_level High and names the
\* health-related driver in score_drivers_negative.
C22_HealthInProductionIsHigh ==
    ( /\ Estimated
      /\ call.project_data.project_description = "patient diagnosis history"
      /\ call.project_data.deployment_stage = "Production"
      /\ call.project_data.ai_capabilities = <<>> )
        => /\ call.result.risk_level = <<"High">>
           /\ "Health-related use case" \in Range(call.result.critical_factors.score_drivers_negative)


----------------------------------------------------------------------------
(***************************************************************************)
(* Claims about the validation of a submission                             *)
(***************************************************************************)

\* C15: a submission whose project_name is missing or empty is rejected:
\* it is answered with an error, never with a success document, and no
\* recommendation is generated for it.
C15_EmptyProjectNameRejected ==
    (Answered /\ "project_name" \in DOMAIN req.project_data
              /\ req.project_data.project_name = "")
        => /\ req.status >= 400
           /\ "error" \in DOMAIN req.response
           /\ req.gen_calls = 0

----------------------------------------------------------------------------
(***************************************************************************)
(* Claims about the start of the process                                   *)
(***************************************************************************)

\* The catalog the loader gets from the file is empty.
CatalogUnusable == call.fn = "module_init" /\ _load_json(call.catalog_file) = <<>>

\* C16: when the knowledge catalog file is missing or is not valid JSON at
\* the start of the process, the process never comes to serve submission
\* requests and answers none.
C16_NoServingWithoutCatalog ==
    CatalogUnusable => (call.pc # "serving" /\ req.pc = "none")

----------------------------------------------------------------------------
(***************************************************************************)
(* Claims about the tool lists                                             *)
(***************************************************************************)

ToolsAssembled == call.fn = "essential_tools" /\ call.pc = "returned"

\* No two entries of a list of tool payloads have the same lower-case name.
UniqueToolNames(tools) ==
    \A i, j \in DOMAIN tools :
        i < j => _safe_lower(Get(tools[i], "name")) # _safe_lower(Get(tools[j], "name"))

\* No two names of a list of names are equal in lower case.
UniqueNames(names) ==
    \A i, j \in DOMAIN names : i < j => LowerWord(names[i]) # LowerWord(names[j])

\* Each entry of the list is the first of its lower-case name in the sources.
FirstKept(tools, sources) ==
    \A i \in DOMAIN tools :
        \E k \in DOMAIN sources :
            /\ sources[k] = tools[i]
            /\ \A j \in 1..(k - 1) :
                  _safe_lower(Get(sources[j], "name")) # _safe_lower(Get(tools[i], "name"))

\* The generated tools followed by the payloads of the scenario's tools
ToolSources ==
    Get(call.quick_start_guide, "essential_tools") \o EssentialTools(call.scenario, <<>>)

\* C17: a tools list of the final document that is put together from the
\* generated response and the scenario holds at most one entry per tool
\* name compared case-insensitively, and that entry is the first one met,
\* generated items before scenario items.
C17_OneEntryPerToolName ==
    ToolsAssembled =>
        /\ UniqueToolNames(Get(call.guide, "essential_tools"))
        /\ FirstKept(Get(call.guide, "essential_tools"), ToolSources)
        /\ UniqueToolNames(Get(call.summary, "essential_tools"))
        /\ UniqueNames(Get(Get(call.guide, "quick_reference"), "top_3_tools"))

----------------------------------------------------------------------------
(***************************************************************************)
(* Claims about the forced refresh                                         *)
(***************************************************************************)

\* C18: a request with refresh=true is never answered from an entry that
\* was persisted before the request: clear_cache has deleted the entries
\* of the type, so the data comes from a fetch made by this request.
C18_RefreshBypassesCache ==
    \A p \in Procs :
        (inv[p].pc = "done" /\ inv[p].refresh /\ inv[p].ret.kind = "value")
            => inv[p].ret.data.source \notin {"cache", "stale_cache"}

----------------------------------------------------------------------------
(***************************************************************************)
(* Claims about InputAssessor.detect_project_type                          *)
(***************************************************************************)

\* C21: for a profile with technology_type 'LLM' and industry 'Healthcare',
\* detect_project_type returns is_llm_project = true and is_high_risk = true,
\* whatever the text of project_description.
C21_LlmHealthcareIsHighRisk ==
    ( /\ call.fn = "detect_project_type"
      /\ call.pc = "returned"
      /\ call.project_data.technology_type = <<"LLM">>
      /\ call.project_data.industry = <<"Healthcare">> )
        => call.result.is_llm_project /\ call.result.is_high_risk

----------------------------------------------------------------------------
(***************************************************************************)
(* Claims about get_reference_architectures                                *)
(***************************************************************************)

ArchDone == call.fn = "get_reference_architectures" /\ call.pc = "done"

\* The aggregate built by the call is in the file under the time of the call.
ArchPersisted == ArchFile = Entry(now, call.result) /\ call.ret = call.result

\* A call that finds an aggregate younger than 24 hours returns it as it is,
\* calls fetch_github_repo_info for no repository and leaves the file alone.
ArchServedFromFile ==
    (Parses(call.before) /\ now - call.before.timestamp < TTL_reference_architectures)
        => /\ call.ret = call.before.data
           /\ call.repo_calls = 0
           /\ ~call.built
           /\ ArchFile = call.before

\* C27 as stated: get_reference_architectures persists the aggregate it
\* builds on every cache miss, also when every repository fetch failed and
\* github_repos is empty, and for the next 24 hours every call returns the
\* persisted aggregate unchanged and attempts no repository fetch.
C27_EveryMissPersists ==
    ArchDone => /\ call.built => ArchPersisted
                /\ ArchServedFromFile

\* C27 amended: as above, the aggregate being persisted when the cache write
\* of the call succeeded.
C27_AggregateServedForTTL ==
    ArchDone => /\ (call.built /\ call.wrote = "ok") => ArchPersisted
                /\ ArchServedFromFile

\* An aggregate without repositories, persisted 23 hours ago, is returned
\* and no repository is fetched.
C27_Witness ==
    /\ ArchDone
    /\ Parses(call.before)
    /\ call.before.data.github_repos = <<>>
    /\ now - call.before.timestamp = TTL_reference_architectures - 1
    /\ call.ret = call.before.data
    /\ call.repo_calls = 0

\* An aggregate without repositories was persisted after a failed fetch.
C27_WitnessPersisted ==
    /\ ArchDone /\ call.built /\ call.wrote = "ok"
    /\ call.result.github_repos = <<>>
    /\ ArchFile = Entry(now, call.result)

----------------------------------------------------------------------------
(***************************************************************************)
(* Claims about CatalogIntegration                                         *)
(***************************************************************************)

\* C28: the two priority escalators agree: for every base priority, every
\* value of is_high_risk and every deployment stage, _get_tool_priority
\* returns the tier that get_priority returns for a risk type of that base
\* priority with handles_pii false.
C28_EscalatorsAgree ==
    ( /\ call.fn = "_get_tool_priority"
      /\ call.pc = "returned"
      /\ call.tool_name \in DOMAIN TOOL_RISK_MAP
      /\ ToolBasePriority(call.tool_name) = BasePriority(call.risk_type) )
        => call.result = call.mapper_result

\* The list is ordered from CRITICAL_BLOCKER to NICE_TO_HAVE
OrderedByPriority(tools) ==
    \A i, j \in DOMAIN tools :
        i < j => OrderIndex(tools[i].priority) <= OrderIndex(tools[j].priority)

\* No two tools of the list have the same name
DistinctNames(tools) ==
    \A i, j \in DOMAIN tools : tools[i].name = tools[j].name => i = j

\* Every tool that was added is in the list once, with the most severe of
\* the priorities it was added with
KeepsMostSevere(added, tools) ==
    \A i \in DOMAIN added :
        \E j \in DOMAIN tools :
            /\ tools[j].name = added[i].name
            /\ OrderIndex(tools[j].priority) <= OrderIndex(added[i].priority)
            /\ \E k \in DOMAIN added : added[k] = tools[j]

ToolsReturned == call.fn = "get_tools_for_project_type" /\ call.pc = "returned"

\* C29: the list get_tools_for_project_type returns is ordered from
\* CRITICAL_BLOCKER to NICE_TO_HAVE and has no two tools of the same name
\* (as stated: on every path of the function).
C29_ReturnedListOrdered ==
    ToolsReturned => OrderedByPriority(call.result) /\ DistinctNames(call.result)

\* C29 (amended): with the knowledge loader available the returned list is
\* ordered from CRITICAL_BLOCKER to NICE_TO_HAVE, has no two tools of the
\* same name, and keeps for every added tool the entry with the most severe
\* priority; without the loader the fallback list has distinct names.
C29_CatalogListOrdered ==
    ToolsReturned =>
        /\ DistinctNames(call.result)
        /\ call.KNOWLEDGE_AVAILABLE =>
              /\ OrderedByPriority(call.result)
              /\ KeepsMostSevere(call.tools, call.result)

\* A tool added three times with two priorities, and one entry of it kept
C29_Witness ==
    /\ ToolsReturned
    /\ call.KNOWLEDGE_AVAILABLE
    /\ \E i, j \in DOMAIN call.tools :
          /\ i < j
          /\ call.tools[i].name = call.tools[j].name
          /\ call.tools[i].priority = "RECOMMENDED"
          /\ call.tools[j].priority = "HIGHLY_RECOMMENDED"
    /\ Len(call.result) < Len(call.tools)

----------------------------------------------------------------------------
(***************************************************************************)
(* Claims about KnowledgeLoader                                            *)
(***************************************************************************)

\* C30: KnowledgeLoader reads each catalog file at most once between two
\* reload_all calls: after the first access the result is cached and no
\* later access reads the file.
C30_ReadAtMostOncePerReload ==
    call.fn = "KnowledgeLoader" => \A f \in KnowledgeFiles : call.reads[f] <= 1

====
